---- MODULE Spec2Model ----
(***************************************************************************)
(* A model of the landmark file codec of landmark_tools:                   *)
(*   scripts/python/landmark_tools/landmark.py       (canonical, v3)       *)
(*   scripts/python/landmark_tools/convert_endian.py (legacy, v1)          *)
(*                                                                         *)
(* A file is a sequence of bytes (0..255).  A 32-bit integer in memory is  *)
(* an integer; a floating-point number in memory is its IEEE-754 bit       *)
(* pattern, written as the sequence of its bytes from the most significant *)
(* to the least significant one (8 bytes for a Python float, 4 for the     *)
(* float32 struct writes with 'f').  A numpy array is its shape and its    *)
(* elements in row-major order.                                            *)
(***************************************************************************)
EXTENDS Integers, Sequences, FiniteSets, TLC

VARIABLES
  rec,    \* the record the caller holds (self of save), or NoRecord
  disk,   \* the landmark file: [exists, data]
  lmk,    \* the object the last load constructed, or NoRecord
  err,    \* the exception the last operation raised, "none" if it returned
  op,     \* the last operation and its arguments
  cx      \* the arguments and results of a direct call of the matrix codec

vars == <<rec, disk, lmk, err, op, cx>>

---------------------------------------------------------------------------
(* Bounds of the model.                                                    *)

\* Largest num_cols / num_rows of a generated record or header.
MaxDim == 2

---------------------------------------------------------------------------
(* Sequences and Python slices.                                            *)

Min(a, b) == IF a < b THEN a ELSE b
Max(a, b) == IF a > b THEN a ELSE b
Abs(a) == IF a < 0 THEN -a ELSE a

Reverse(s) == [i \in 1..Len(s) |-> s[Len(s) + 1 - i]]

Zeros(n) == [i \in 1..n |-> 0]

RECURSIVE Pow2(_)
Pow2(n) == IF n = 0 THEN 1 ELSE 2 * Pow2(n - 1)

RECURSIVE Log2(_)
\* floor(log2 n) for n >= 1
Log2(n) == IF n < 2 THEN 0 ELSE 1 + Log2(n \div 2)

\* A Python slice index clamped into 0..n (negative indices count from the end).
PyIndex(i, n) == IF i < 0 THEN Max(n + i, 0) ELSE Min(i, n)

\* s[a:b] of Python on a 0-indexed bytes object.
PySlice(s, a, b) ==
  LET lo == PyIndex(a, Len(s))
      hi == PyIndex(b, Len(s))
  IN  IF lo < hi THEN SubSeq(s, lo + 1, hi) ELSE <<>>

\* s[a:] of Python.
PyTail(s, a) == PySlice(s, a, Len(s))

---------------------------------------------------------------------------
(* struct: 32-bit integers.                                                *)

\* The four bytes of a two's-complement int32, most significant first.
Int32Bytes(v) ==
  LET u == IF v < 0 THEN v + 2147483647 + 1 ELSE v
      top == (u \div 16777216) + (IF v < 0 THEN 128 ELSE 0)
  IN  << top, (u \div 65536) % 256, (u \div 256) % 256, u % 256 >>

\* The int32 whose bytes, most significant first, are w.
Int32Value(w) ==
  (IF w[1] >= 128 THEN w[1] - 256 ELSE w[1]) * 16777216
    + w[2] * 65536 + w[3] * 256 + w[4]

\* struct.pack('>i' / '<i', v)
PackInt(v, little) == IF little THEN Reverse(Int32Bytes(v)) ELSE Int32Bytes(v)

\* struct.unpack('>i' / '<i', b)
UnpackInt(b, little) == Int32Value(IF little THEN Reverse(b) ELSE b)

---------------------------------------------------------------------------
(* struct: floating point.  A double is <<b1..b8>>, a float32 <<b1..b4>>,  *)
(* most significant byte first: sign, biased exponent, fraction.           *)

F64Sign(w) == w[1] \div 128
F64Exp(w) == (w[1] % 128) * 16 + (w[2] \div 16)
\* the 23 leading fraction bits and the 29 trailing ones
F64FracHi(w) == ((w[2] % 16) * 65536 + w[3] * 256 + w[4]) * 8 + (w[5] \div 32)
F64FracLo(w) == (w[5] % 32) * 16777216 + w[6] * 65536 + w[7] * 256 + w[8]

IsNaN(w) == F64Exp(w) = 2047 /\ (F64FracHi(w) # 0 \/ F64FracLo(w) # 0)
IsInf(w) == F64Exp(w) = 2047 /\ F64FracHi(w) = 0 /\ F64FracLo(w) = 0
IsZero(w) == F64Exp(w) = 0 /\ F64FracHi(w) = 0 /\ F64FracLo(w) = 0

F32Sign(v) == v[1] \div 128
F32Exp(v) == (v[1] % 128) * 2 + (v[2] \div 128)
F32Frac(v) == (v[2] % 128) * 65536 + v[3] * 256 + v[4]

\* The float32 with sign s and the 31 low bits m (exponent * 2^23 + fraction).
F32Make(s, m) ==
  << s * 128 + (m \div 16777216), (m \div 65536) % 256, (m \div 256) % 256, m % 256 >>

\* The double with sign s, biased exponent e and a fraction whose 23 leading
\* bits are f (the 29 trailing bits zero).
F64Make(s, e, f) ==
  LET hi == f \div 8
  IN  << s * 128 + (e \div 16), (e % 16) * 16 + (hi \div 65536),
         (hi \div 256) % 256, hi % 256, (f % 8) * 32, 0, 0, 0 >>

\* C's (float)x, round to nearest even, as struct.pack('f', x) computes it:
\* the 31 low bits of the float32, or -1 when a finite x rounds to infinity
\* (struct raises OverflowError).
F64toF32Low(w) ==
  LET e  == F64Exp(w)
      f  == F64FracHi(w)
      lo == F64FracLo(w)
      e32 == e - 896
  IN  IF e = 2047
        THEN IF f = 0 /\ lo = 0
               THEN 255 * 8388608
               ELSE 255 * 8388608 + (IF f < 4194304 THEN f + 4194304 ELSE f)
      ELSE IF e = 0 THEN 0
      ELSE IF e32 >= 1
        THEN LET up == lo > 268435456 \/ (lo = 268435456 /\ f % 2 = 1)
                 m  == e32 * 8388608 + f + (IF up THEN 1 ELSE 0)
             IN  IF e32 >= 255 \/ m >= 255 * 8388608 THEN -1 ELSE m
      ELSE LET s == 1 - e32
           IN  IF s >= 25 THEN 0
               ELSE LET sig  == 8388608 + f
                        q    == sig \div Pow2(s)
                        r    == sig % Pow2(s)
                        half == Pow2(s - 1)
                        up   == r > half \/ (r = half /\ (lo > 0 \/ q % 2 = 1))
                    IN  q + (IF up THEN 1 ELSE 0)

F64toF32(w) == F32Make(F64Sign(w), F64toF32Low(w))

\* C's (double)y of a float32 y, as struct.unpack('f', b) returns it: exact.
F32toF64(v) ==
  LET s == F32Sign(v)
      e == F32Exp(v)
      f == F32Frac(v)
  IN  IF e = 255
        THEN F64Make(s, 2047, IF f = 0 THEN 0 ELSE IF f < 4194304 THEN f + 4194304 ELSE f)
      ELSE IF e = 0
        THEN IF f = 0 THEN F64Make(s, 0, 0)
             ELSE LET k == Log2(f)
                  IN  F64Make(s, 874 + k, (f - Pow2(k)) * Pow2(23 - k))
      ELSE F64Make(s, e + 896, f)

---------------------------------------------------------------------------
(* Python float arithmetic, as save_legacy_little_endian uses it, on the   *)
(* doubles whose results it computes without rounding (integers of         *)
(* magnitude below 2^23, and NaN), and the reciprocal of a small integer.  *)

\* The double with sign s, biased exponent e, the 23 leading fraction bits
\* hi and the 29 trailing ones lo.
F64Pack(s, e, hi, lo) ==
  << s * 128 + (e \div 16), (e % 16) * 16 + (hi \div 524288),
     (hi \div 2048) % 256, (hi \div 8) % 256,
     (hi % 8) * 32 + (lo \div 16777216),
     (lo \div 65536) % 256, (lo \div 256) % 256, lo % 256 >>

\* -x: the sign bit flipped, of a NaN too
Neg(w) == << (w[1] + 128) % 256 >> \o SubSeq(w, 2, 8)

\* x is an integer of magnitude below 2^23 (a zero of either sign included)
IsSmallInt(w) ==
  \/ IsZero(w)
  \/ /\ F64Exp(w) \in 1023..1045
     /\ F64FracLo(w) = 0
     /\ F64FracHi(w) % Pow2(1046 - F64Exp(w)) = 0

\* |x| of such an x
MagnitudeOf(w) ==
  IF IsZero(w) THEN 0
  ELSE (8388608 + F64FracHi(w)) \div Pow2(1046 - F64Exp(w))

\* the double of sign s and integer magnitude 0 <= m < 2^23
FromMagnitude(s, m) ==
  IF m = 0 THEN F64Pack(s, 0, 0, 0)
  ELSE F64Pack(s, 1023 + Log2(m), (m - Pow2(Log2(m))) * Pow2(23 - Log2(m)), 0)

\* x * y: a NaN operand is the result; the product of two integers is
\* exact, and a zero product has the sign of the operands' signs.
Mul(x, y) ==
  IF IsNaN(x) THEN x
  ELSE IF IsNaN(y) THEN y
  ELSE FromMagnitude((F64Sign(x) + F64Sign(y)) % 2, MagnitudeOf(x) * MagnitudeOf(y))

\* x + y: a NaN operand is the result; the sum of two integers is exact,
\* and a zero sum is +0.0 unless both operands are -0.0.
Add(x, y) ==
  IF IsNaN(x) THEN x
  ELSE IF IsNaN(y) THEN y
  ELSE LET a == (IF F64Sign(x) = 1 THEN -1 ELSE 1) * MagnitudeOf(x)
           b == (IF F64Sign(y) = 1 THEN -1 ELSE 1) * MagnitudeOf(y)
       IN  IF a + b = 0
             THEN FromMagnitude(IF IsZero(x) /\ IsZero(y) /\ F64Sign(x) = 1 /\ F64Sign(y) = 1
                                  THEN 1 ELSE 0, 0)
           ELSE FromMagnitude(IF a + b < 0 THEN 1 ELSE 0, Abs(a + b))

\* 1.0 / x for an integer x with 1 <= |x| < 2^7, rounded to nearest: the
\* quotient 2^(53+p) / |x| by long division, 23 fraction bits, then 15,
\* then 14, and the remainder deciding the rounding.
Recip(w) ==
  LET n  == MagnitudeOf(w)
      p  == Log2(n)
      r0 == Pow2(p + 1) - n
      hi == (r0 * 8388608) \div n
      r1 == (r0 * 8388608) % n
      l1 == (r1 * 32768) \div n
      r2 == (r1 * 32768) % n
      l0 == (r2 * 16384) \div n
      r3 == (r2 * 16384) % n
      f  == l1 * 16384 + l0 + (IF 2 * r3 > n THEN 1 ELSE 0)
  IN  IF n = Pow2(p) THEN F64Pack(F64Sign(w), 1023 - p, 0, 0)
      ELSE F64Pack(F64Sign(w), 1022 - p, hi + (f \div 536870912), f % 536870912)

---------------------------------------------------------------------------
(* numpy arrays: [shape, data], data in row-major order.                   *)

Array1(elems) == [shape |-> << Len(elems) >>, data |-> elems]
Array2(rows, cols, elems) == [shape |-> << rows, cols >>, data |-> elems]

\* mat[ii, jj] of a 2-D array, 0-indexed
At(mat, ii, jj) == mat.data[ii * mat.shape[2] + jj + 1]

\* np.array(list_m) of a list of equally long tuples: an empty list gives a
\* 1-D array of shape (0,)
ArrayOfRows(nrows, ncols, elems) ==
  IF nrows = 0 THEN Array1(<<>>) ELSE Array2(nrows, ncols, elems)

---------------------------------------------------------------------------
(* unpack_matrix, unpack_little_endian_matrix, pack_matrix.                *)

\* a variant that also lets the signed byte through
SupportedKinds_Wide == {"d", "f", "B", "b"}

SupportedKinds == {"d", "f", "B"}

\* b_size of an element kind
ByteSize(type) == IF type = "d" THEN 8 ELSE IF type = "f" THEN 4 ELSE 1

\* One element decoded from its bytes b with struct flag '<' (little) or '>'.
DecodeElem(type, b, little) ==
  LET w == IF little THEN Reverse(b) ELSE b
  IN  IF type = "d" THEN w
      ELSE IF type = "f" THEN F32toF64(w)
      ELSE b[1]

\* struct.unpack(flag + type*count, b) for a b of exactly the right length
DecodeRun(type, count, b, little) ==
  [k \in 1..count |->
     DecodeElem(type, SubSeq(b, (k - 1) * ByteSize(type) + 1, k * ByteSize(type)), little)]

\* a variant that hands every row the bytes of row 0
RowSlice_Unstrided(type, size, buffer, ii) ==
  PySlice(buffer, 0, ByteSize(type) * size[1])

\* The slice the loop of unpack_matrix hands to struct.unpack for row ii.
RowSlice(type, size, buffer, ii) ==
  LET nbytes == ByteSize(type) * size[1]
  IN  PySlice(buffer, ii * nbytes, ii * nbytes + nbytes)

\* The loop shared by the two unpackers; little is the flag of the format
\* string handed to struct.unpack.
UnpackRows(type, size, buffer, little) ==
  LET count == Max(size[1], 0)            \* type*size[0] is '' for size[0] < 0
      nrows == Max(size[2], 0)            \* range(size[1])
      bad   == {ii \in 0..(nrows - 1) :
                  Len(RowSlice(type, size, buffer, ii)) # ByteSize(type) * count}
      row(ii) == DecodeRun(type, count, RowSlice(type, size, buffer, ii), little)
  IN  IF bad # {}
        THEN [err |-> "struct.error", mat |-> Array1(<<>>)]
        ELSE [err |-> "none",
              mat |-> ArrayOfRows(nrows, count,
                        [k \in 1..(nrows * count) |->
                           row((k - 1) \div count)[((k - 1) % count) + 1]])]

\* unpack_matrix(type, size, buffer, little_endian): endian_flag is computed
\* from little_endian, and the format string is '>'+type*size[0].
UnpackMatrix(type, size, buffer, little_endian) ==
  IF type \notin SupportedKinds
    THEN [err |-> "ValueError", mat |-> Array1(<<>>)]
  ELSE IF Len(size) < 2
    THEN [err |-> "IndexError", mat |-> Array1(<<>>)]
  ELSE UnpackRows(type, size, buffer, FALSE)

\* a variant with the format '>'+type*size[0]
UnpackLittleEndianMatrix_BigEndian(type, size, buffer) ==
  IF type \notin {"d", "f", "B"}
    THEN [err |-> "ValueError", mat |-> Array1(<<>>)]
  ELSE IF Len(size) < 2
    THEN [err |-> "IndexError", mat |-> Array1(<<>>)]
  ELSE UnpackRows(type, size, buffer, FALSE)

\* a variant that calls unpack_matrix(type, size, buffer, little_endian=True)
UnpackLittleEndianMatrix_Delegating(type, size, buffer) ==
  UnpackMatrix(type, size, buffer, TRUE)

\* unpack_little_endian_matrix(type, size, buffer): format '<'+type*size[0]
UnpackLittleEndianMatrix(type, size, buffer) ==
  IF type \notin SupportedKinds
    THEN [err |-> "ValueError", mat |-> Array1(<<>>)]
  ELSE IF Len(size) < 2
    THEN [err |-> "IndexError", mat |-> Array1(<<>>)]
  ELSE UnpackRows(type, size, buffer, TRUE)

\* The bytes struct.pack(flag + type, v) produces, or the exception it raises.
EncodeElem(type, v, little) ==
  IF type = "d"
    THEN [err |-> "none", bytes |-> IF little THEN Reverse(v) ELSE v]
  ELSE IF type = "f"
    THEN IF F64toF32Low(v) = -1 THEN [err |-> "OverflowError", bytes |-> <<>>]
         ELSE [err |-> "none",
               bytes |-> IF little THEN Reverse(F64toF32(v)) ELSE F64toF32(v)]
  ELSE IF v \in 0..255 THEN [err |-> "none", bytes |-> << v >>]
       ELSE [err |-> "struct.error", bytes |-> <<>>]

\* buffer with b written at 0-indexed offset off (off + Len(b) <= Len(buffer))
WriteAt(buffer, off, b) ==
  SubSeq(buffer, 1, off) \o b \o SubSeq(buffer, off + Len(b) + 1, Len(buffer))

\* struct.pack_into(flag + type, buffer, offset, v)
PackInto(type, buffer, offset, v, little) ==
  LET off == IF offset < 0 THEN offset + Len(buffer) ELSE offset
      e   == EncodeElem(type, v, little)
  IN  IF off < 0 \/ off + ByteSize(type) > Len(buffer)
        THEN [err |-> "struct.error", buf |-> buffer]
      ELSE IF e.err # "none" THEN [err |-> e.err, buf |-> buffer]
      ELSE [err |-> "none", buf |-> WriteAt(buffer, off, e.bytes)]

RECURSIVE PackFrom(_, _, _, _, _, _)
\* The loops of pack_matrix from element k on: one pack_into per element,
\* bytes_packed advancing by b_size; the first exception ends them.
PackFrom(type, elems, k, buffer, bytes_packed, little) ==
  IF k > Len(elems) THEN [err |-> "none", buf |-> buffer]
  ELSE LET r == PackInto(type, buffer, bytes_packed, elems[k], little)
       IN  IF r.err # "none" THEN r
           ELSE PackFrom(type, elems, k + 1, r.buf, bytes_packed + ByteSize(type), little)

\* a variant that visits a 2-D array column by column
PackOrder_ColumnMajor(mat) ==
  IF Len(mat.shape) = 1
    THEN [k \in 1..mat.shape[1] |-> mat.data[k]]
    ELSE [k \in 1..(mat.shape[1] * mat.shape[2]) |->
            At(mat, (k - 1) % mat.shape[1], (k - 1) \div mat.shape[1])]

\* The elements pack_matrix visits: mat.shape[0] of them for a 1-D array,
\* mat.shape[0] * mat.shape[1] in row-major order otherwise.
PackOrder(mat) ==
  IF Len(mat.shape) = 1
    THEN [k \in 1..mat.shape[1] |-> mat.data[k]]
    ELSE [k \in 1..(mat.shape[1] * mat.shape[2]) |->
            At(mat, (k - 1) \div mat.shape[2], (k - 1) % mat.shape[2])]

\* pack_matrix(type, mat, buffer, offset, little_endian)
PackMatrix(type, mat, buffer, offset, little_endian) ==
  IF type \notin SupportedKinds
    THEN [err |-> "ValueError", buf |-> buffer]
  ELSE PackFrom(type, PackOrder(mat), 1, buffer, offset, little_endian)

---------------------------------------------------------------------------
(* Records and files.                                                      *)

NoRecord == [tag |-> "none"]
NoFile == [exists |-> FALSE, format |-> "none", src |-> NoRecord, data |-> <<>>]

\* bytearray slice assignment buf[a:b] = val: the slice is replaced by val,
\* whatever its length
SliceAssign(buf, a, b, val) ==
  LET lo == PyIndex(a, Len(buf))
      hi == Max(PyIndex(b, Len(buf)), lo)
  IN  SubSeq(buf, 1, lo) \o val \o SubSeq(buf, hi + 1, Len(buf))

\* struct.unpack(flag + 'i'*n, b) / struct.unpack(flag + 'd'*n, b)
UnpackInts(b, n, little) ==
  [k \in 1..n |-> UnpackInt(SubSeq(b, 4 * k - 3, 4 * k), little)]
UnpackDoubles(b, n, little) ==
  [k \in 1..n |-> DecodeElem("d", SubSeq(b, 8 * k - 7, 8 * k), little)]

RECURSIVE Concat(_)
\* the concatenation of a sequence of byte strings
Concat(ss) == IF ss = <<>> THEN <<>> ELSE Head(ss) \o Concat(Tail(ss))

\* struct.pack_into(flag + 'i'*n / 'd'*n, buffer, offset, *values)
PackIntsInto(buffer, offset, values, little) ==
  IF offset + 4 * Len(values) > Len(buffer)
    THEN [err |-> "struct.error", buf |-> buffer]
    ELSE [err |-> "none",
          buf |-> WriteAt(buffer, offset,
                          Concat([k \in 1..Len(values) |-> PackInt(values[k], little)]))]
PackDoublesInto(buffer, offset, values, little) ==
  IF offset + 8 * Len(values) > Len(buffer)
    THEN [err |-> "struct.error", buf |-> buffer]
    ELSE [err |-> "none",
          buf |-> WriteAt(buffer, offset,
                          Concat([k \in 1..Len(values) |->
                                    EncodeElem("d", values[k], little).bytes]))]

\* b'#! LVS Map v3.0'
VersionText == << 35, 33, 32, 76, 86, 83, 32, 77, 97, 112, 32, 118, 51, 46, 48 >>
\* a variant that pads with a space
PadByte_Space == 48 - 16
\* a variant that pads with the null byte
PadByte_Null == 48 - 48
\* ord('0'), the pad byte
PadByte == 48
\* length of the version field and of the id field
FieldLen == 32
\* the bytes before srm in a canonical file, and in a legacy file
HeaderSize == 196
LegacyHeaderSize == 312

\* a variant that takes lmk_id from bytes [0,32)
Load_IdAtZero(file_data) ==
  LET ints == PySlice(file_data, 64, 76)
      dbls == PySlice(file_data, 76, 100)
      apt  == PySlice(file_data, 100, 124)
      h    == UnpackInts(ints, 3, FALSE)
      num_cols == h[2]
      num_rows == h[3]
      num_pixels == num_cols * num_rows
      d    == UnpackDoubles(dbls, 3, FALSE)
      rot  == UnpackMatrix("d", << 3, 3 >>, PyTail(file_data, 124), FALSE)
      srm  == UnpackMatrix("B", << num_cols, num_rows >>, PyTail(file_data, HeaderSize), FALSE)
      ele  == UnpackMatrix("f", << num_cols, num_rows >>,
                           PyTail(file_data, HeaderSize + num_pixels), FALSE)
  IN  IF Len(ints) # 12 \/ Len(dbls) # 24 \/ Len(apt) # 24
        THEN [err |-> "struct.error", obj |-> NoRecord]
      ELSE IF rot.err # "none" THEN [err |-> rot.err, obj |-> NoRecord]
      ELSE IF srm.err # "none" THEN [err |-> srm.err, obj |-> NoRecord]
      ELSE IF ele.err # "none" THEN [err |-> ele.err, obj |-> NoRecord]
      ELSE [err |-> "none",
            obj |-> [tag |-> "lmk",
                     BODY |-> h[1],
                     lmk_id |-> PySlice(file_data, 0, 32),
                     num_cols |-> num_cols,
                     num_rows |-> num_rows,
                     num_pixels |-> num_pixels,
                     anchor_col |-> d[1],
                     anchor_row |-> d[2],
                     resolution |-> d[3],
                     anchor_point |-> Array1(UnpackDoubles(apt, 3, FALSE)),
                     mapRworld |-> rot.mat,
                     srm |-> srm.mat,
                     ele |-> ele.mat]]

\* Landmark.__init__(lmk_file) on the file contents file_data: the object,
\* or the exception.
Load(file_data) ==
  LET ints == PySlice(file_data, 64, 76)
      dbls == PySlice(file_data, 76, 100)
      apt  == PySlice(file_data, 100, 124)
      h    == UnpackInts(ints, 3, FALSE)
      num_cols == h[2]
      num_rows == h[3]
      num_pixels == num_cols * num_rows
      d    == UnpackDoubles(dbls, 3, FALSE)
      rot  == UnpackMatrix("d", << 3, 3 >>, PyTail(file_data, 124), FALSE)
      srm  == UnpackMatrix("B", << num_cols, num_rows >>, PyTail(file_data, HeaderSize), FALSE)
      ele  == UnpackMatrix("f", << num_cols, num_rows >>,
                           PyTail(file_data, HeaderSize + num_pixels), FALSE)
  IN  IF Len(ints) # 12 \/ Len(dbls) # 24 \/ Len(apt) # 24
        THEN [err |-> "struct.error", obj |-> NoRecord]
      ELSE IF rot.err # "none" THEN [err |-> rot.err, obj |-> NoRecord]
      ELSE IF srm.err # "none" THEN [err |-> srm.err, obj |-> NoRecord]
      ELSE IF ele.err # "none" THEN [err |-> ele.err, obj |-> NoRecord]
      ELSE [err |-> "none",
            obj |-> [tag |-> "lmk",
                     BODY |-> h[1],
                     lmk_id |-> PySlice(file_data, 32, 64),
                     num_cols |-> num_cols,
                     num_rows |-> num_rows,
                     num_pixels |-> num_pixels,
                     anchor_col |-> d[1],
                     anchor_row |-> d[2],
                     resolution |-> d[3],
                     anchor_point |-> Array1(UnpackDoubles(apt, 3, FALSE)),
                     mapRworld |-> rot.mat,
                     srm |-> srm.mat,
                     ele |-> ele.mat]]

\* a variant that packs anchor_row before anchor_col
SaveStep_RowFirst(self, k, b) ==
  CASE k = 1 -> PackIntsInto(b, 64, << self.BODY, self.num_cols, self.num_rows >>, FALSE)
    [] k = 2 -> PackDoublesInto(b, 76, << self.anchor_row, self.anchor_col, self.resolution >>, FALSE)
    [] k = 3 -> PackMatrix("d", self.anchor_point, b, 100, FALSE)
    [] k = 4 -> PackMatrix("d", self.mapRworld, b, 124, FALSE)
    [] k = 5 -> PackMatrix("B", self.srm, b, HeaderSize, FALSE)
    [] k = 6 -> PackMatrix("f", self.ele, b, HeaderSize + self.num_pixels, FALSE)

\* Step k of Landmark.save on the buffer b: the six packs of lines 134-150.
SaveStep(self, k, b) ==
  CASE k = 1 -> PackIntsInto(b, 64, << self.BODY, self.num_cols, self.num_rows >>, FALSE)
    [] k = 2 -> PackDoublesInto(b, 76, << self.anchor_col, self.anchor_row, self.resolution >>, FALSE)
    [] k = 3 -> PackMatrix("d", self.anchor_point, b, 100, FALSE)
    [] k = 4 -> PackMatrix("d", self.mapRworld, b, 124, FALSE)
    [] k = 5 -> PackMatrix("B", self.srm, b, HeaderSize, FALSE)
    [] k = 6 -> PackMatrix("f", self.ele, b, HeaderSize + self.num_pixels, FALSE)

RECURSIVE SaveFrom(_, _, _)
\* The steps of Landmark.save from step k on; the first exception ends them.
SaveFrom(self, k, b) ==
  CHOOSE out \in { IF r.err # "none" \/ k = 6 THEN r ELSE SaveFrom(self, k + 1, r.buf) :
                     r \in { SaveStep(self, k, b) } } : TRUE

\* Landmark.save(lmk_file) of the record self: the bytes written, or the
\* exception (nothing is written then).
Save(self) ==
  LET version == VersionText \o [i \in 1..(FieldLen - Len(VersionText)) |-> PadByte]
      size == HeaderSize + self.num_pixels * 1 + self.num_pixels * 4
      b0 == SliceAssign(SliceAssign(Zeros(size), 0, 32, version), 32, 64, self.lmk_id)
  IN  IF size < 0 THEN [err |-> "ValueError", buf |-> <<>>]
      ELSE SaveFrom(self, 1, b0)

---------------------------------------------------------------------------
(* Landmark.save_legacy_little_endian.                                     *)

\* 0.0
Zero64 == F64Pack(0, 0, 0, 0)

\* a variant that writes the length of the id in the id slot
LegacyHeaderInts_IdLen(self) ==
  << self.BODY, Len(self.lmk_id), self.num_cols, self.num_rows >>

\* BODY, lmk_id (integer), num_cols, num_rows as line 161 packs them
LegacyHeaderInts(self) == << self.BODY, 1, self.num_cols, self.num_rows >>

\* a variant whose second row has +resolution
ColRow2MapXY_PlusRow(self) ==
  << self.resolution, Zero64, Mul(Neg(self.resolution), self.anchor_col),
     Zero64, self.resolution, Mul(self.resolution, self.anchor_row) >>

\* col_row2mapxy.flatten(): [[res, 0.0, -res * anchor_col],
\*                           [0.0, -res, res * anchor_row]]
ColRow2MapXY(self) ==
  << self.resolution, Zero64, Mul(Neg(self.resolution), self.anchor_col),
     Zero64, Neg(self.resolution), Mul(self.resolution, self.anchor_row) >>

\* mapxy2col_row.flatten(): [[1.0/res, 0.0, anchor_col],
\*                           [0.0, -1.0/res, anchor_row]]
MapXY2ColRow(self) ==
  << Recip(self.resolution), Zero64, self.anchor_col,
     Zero64, Neg(Recip(self.resolution)), self.anchor_row >>

\* a variant that takes the third row
MapNormalVector_Row(self) ==
  << At(self.mapRworld, 2, 0), At(self.mapRworld, 2, 1), At(self.mapRworld, 2, 2) >>

\* map_normal_vector: mapRworld[0,2], mapRworld[1,2], mapRworld[2,2]
MapNormalVector(self) ==
  << At(self.mapRworld, 0, 2), At(self.mapRworld, 1, 2), At(self.mapRworld, 2, 2) >>

\* np.dot(a, b) of two vectors of three doubles
Dot(a, b) == Add(Add(Mul(a[1], b[1]), Mul(a[2], b[2])), Mul(a[3], b[3]))

\* map_plane_params: the normal vector, then -dot_product
MapPlaneParams(self) ==
  MapNormalVector(self) \o << Neg(Dot(MapNormalVector(self), self.anchor_point.data)) >>

\* a variant that leaves no room for mapxy2col_row
LegacyOffset_Packed(k) ==
  CASE k = 1 -> 0 [] k = 2 -> 16 [] k = 3 -> 64 [] k = 4 -> 88 [] k = 5 -> 136
    [] k = 6 -> 136 [] k = 7 -> 208 [] k = 8 -> 232 [] k = 9 -> 312

\* bytes_packed before step k of save_legacy_little_endian
LegacyOffset(k) ==
  CASE k = 1 -> 0 [] k = 2 -> 16 [] k = 3 -> 64 [] k = 4 -> 88 [] k = 5 -> 136
    [] k = 6 -> 184 [] k = 7 -> 256 [] k = 8 -> 280 [] k = 9 -> 312

\* Step k of save_legacy_little_endian on the buffer b; geo is
\* << lat, lon, radius >>.  1.0/self.resolution raises ZeroDivisionError
\* for a resolution of 0.0.
SaveLegacyStep(self, geo, k, b) ==
  CASE k = 1 -> PackIntsInto(b, LegacyOffset(1), LegacyHeaderInts(self), TRUE)
    [] k = 2 -> PackDoublesInto(b, LegacyOffset(2),
                  << self.anchor_col, self.anchor_row, geo[1], geo[2], geo[3],
                     self.resolution >>, TRUE)
    [] k = 3 -> IF Len(self.anchor_point.data) # 3
                  THEN [err |-> "struct.error", buf |-> b]
                  ELSE PackDoublesInto(b, LegacyOffset(3), self.anchor_point.data, TRUE)
    [] k = 4 -> PackDoublesInto(b, LegacyOffset(4), ColRow2MapXY(self), TRUE)
    [] k = 5 -> IF IsZero(self.resolution)
                  THEN [err |-> "ZeroDivisionError", buf |-> b]
                  ELSE PackDoublesInto(b, LegacyOffset(5), MapXY2ColRow(self), TRUE)
    [] k = 6 -> PackMatrix("d", self.mapRworld, b, LegacyOffset(6), TRUE)
    [] k = 7 -> PackDoublesInto(b, LegacyOffset(7), MapNormalVector(self), TRUE)
    [] k = 8 -> PackDoublesInto(b, LegacyOffset(8), MapPlaneParams(self), TRUE)
    [] k = 9 -> PackMatrix("B", self.srm, b, LegacyOffset(9), TRUE)
    [] k = 10 -> PackMatrix("f", self.ele, b, LegacyOffset(9) + self.num_pixels, TRUE)

RECURSIVE SaveLegacyFrom(_, _, _, _)
\* The steps from step k on; the first exception ends them.
SaveLegacyFrom(self, geo, k, b) ==
  CHOOSE out \in { IF r.err # "none" \/ k = 10 THEN r
                     ELSE SaveLegacyFrom(self, geo, k + 1, r.buf) :
                     r \in { SaveLegacyStep(self, geo, k, b) } } : TRUE

\* save_legacy_little_endian(lmk_file, lat, lon, radius) of the record
\* self: the bytes written, or the exception (nothing is written then).
SaveLegacy(self, geo) ==
  LET size == LegacyHeaderSize + self.num_pixels * 1 + self.num_pixels * 4
  IN  IF size < 0 THEN [err |-> "ValueError", buf |-> <<>>]
      ELSE SaveLegacyFrom(self, geo, 1, Zeros(size))

\* The records whose derived fields are computed without rounding: the
\* resolution an integer 0..127, the anchor pixel integers, and the third
\* column of mapRworld and the anchor point non-negative integers below
\* 1024 (their products sum below 2^23) or NaN.
Exact(self) ==
  LET small(w) == IsSmallInt(w) /\ MagnitudeOf(w) < 2048
      term(w)  == IsNaN(w) \/ (small(w) /\ MagnitudeOf(w) < 1024 /\ F64Sign(w) = 0)
  IN  /\ small(self.resolution) /\ MagnitudeOf(self.resolution) < 128
      /\ F64Sign(self.resolution) = 0
      /\ small(self.anchor_col) /\ small(self.anchor_row)
      /\ self.mapRworld.shape = << 3, 3 >>
      /\ Len(self.anchor_point.data) = 3
      /\ \A k \in 1..3 : term(MapNormalVector(self)[k]) /\ term(self.anchor_point.data[k])

---------------------------------------------------------------------------
(* convert_endian.py: the legacy loader.                                   *)

RECURSIVE DigitsOf(_)
\* the ASCII decimal digits of n >= 0
DigitsOf(n) == IF n < 10 THEN << 48 + n >> ELSE DigitsOf(n \div 10) \o << 48 + (n % 10) >>

RECURSIVE NegDigitsOf(_)
\* the ASCII decimal digits of -n for n < 0
NegDigitsOf(n) ==
  LET d == (10 - (n % 10)) % 10
  IN  IF n > -10 THEN << 48 - n >> ELSE NegDigitsOf((n + d) \div 10) \o << 48 + d >>

\* a variant that drops the sign
DecimalText_Unsigned(n) == IF n < 0 THEN NegDigitsOf(n) ELSE DigitsOf(n)

\* '{}'.format(n).encode('utf-8')
DecimalText(n) == IF n < 0 THEN << 45 >> \o NegDigitsOf(n) ELSE DigitsOf(n)

\* the keys of body_conversion
BodyNames == {"Earth", "Moon", "Mars"}

\* a variant that gives Mars a code of its own
body_conversion_MarsTwo(name) == IF name = "Moon" THEN 1 ELSE IF name = "Mars" THEN 2 ELSE 0

\* body_conversion = {'Earth':0, 'Moon':1, 'Mars':0}
body_conversion(name) == IF name = "Moon" THEN 1 ELSE 0

\* a variant that takes resolution from the fifth double, the radius
LoadLegacy_RadiusAsResolution(file_data, body) ==
  LET ints == PySlice(file_data, 0, 16)
      dbls == PySlice(file_data, 16, 64)
      apt  == PySlice(file_data, 64, 88)
      h    == UnpackInts(ints, 4, TRUE)
      text == DecimalText(h[2])
      id   == text \o [i \in 1..(FieldLen - Len(text)) |-> PadByte]
      num_cols == h[3]
      num_rows == h[4]
      num_pixels == num_cols * num_rows
      d    == UnpackDoubles(dbls, 6, TRUE)
      rot  == UnpackLittleEndianMatrix("d", << 3, 3 >>, PyTail(file_data, 184))
      srm  == UnpackLittleEndianMatrix("B", << num_cols, num_rows >>,
                                       PyTail(file_data, LegacyHeaderSize))
      ele  == UnpackLittleEndianMatrix("f", << num_cols, num_rows >>,
                                       PyTail(file_data, LegacyHeaderSize + num_pixels))
  IN  IF Len(ints) # 16 THEN [err |-> "struct.error", obj |-> NoRecord]
      ELSE IF body # "None" /\ body \notin BodyNames
        THEN [err |-> "KeyError", obj |-> NoRecord]
      ELSE IF Len(dbls) # 48 \/ Len(apt) # 24
        THEN [err |-> "struct.error", obj |-> NoRecord]
      ELSE IF rot.err # "none" THEN [err |-> rot.err, obj |-> NoRecord]
      ELSE IF srm.err # "none" THEN [err |-> srm.err, obj |-> NoRecord]
      ELSE IF ele.err # "none" THEN [err |-> ele.err, obj |-> NoRecord]
      ELSE [err |-> "none",
            obj |-> [tag |-> "lmk",
                     BODY |-> IF body # "None" THEN body_conversion(body) ELSE h[1],
                     lmk_id |-> id,
                     num_cols |-> num_cols,
                     num_rows |-> num_rows,
                     num_pixels |-> num_pixels,
                     anchor_col |-> d[1],
                     anchor_row |-> d[2],
                     resolution |-> d[5],
                     anchor_point |-> Array1(UnpackDoubles(apt, 3, TRUE)),
                     mapRworld |-> rot.mat,
                     srm |-> srm.mat,
                     ele |-> ele.mat]]

\* LegacyLittleEndianLandmark.__init__(lmk_file, body) on the file contents
\* file_data; body is "None" when the argument is omitted.
LoadLegacy(file_data, body) ==
  LET ints == PySlice(file_data, 0, 16)
      dbls == PySlice(file_data, 16, 64)
      apt  == PySlice(file_data, 64, 88)
      h    == UnpackInts(ints, 4, TRUE)
      text == DecimalText(h[2])
      id   == text \o [i \in 1..(FieldLen - Len(text)) |-> PadByte]
      num_cols == h[3]
      num_rows == h[4]
      num_pixels == num_cols * num_rows
      d    == UnpackDoubles(dbls, 6, TRUE)
      rot  == UnpackLittleEndianMatrix("d", << 3, 3 >>, PyTail(file_data, 184))
      srm  == UnpackLittleEndianMatrix("B", << num_cols, num_rows >>,
                                       PyTail(file_data, LegacyHeaderSize))
      ele  == UnpackLittleEndianMatrix("f", << num_cols, num_rows >>,
                                       PyTail(file_data, LegacyHeaderSize + num_pixels))
  IN  IF Len(ints) # 16 THEN [err |-> "struct.error", obj |-> NoRecord]
      ELSE IF body # "None" /\ body \notin BodyNames
        THEN [err |-> "KeyError", obj |-> NoRecord]
      ELSE IF Len(dbls) # 48 \/ Len(apt) # 24
        THEN [err |-> "struct.error", obj |-> NoRecord]
      ELSE IF rot.err # "none" THEN [err |-> rot.err, obj |-> NoRecord]
      ELSE IF srm.err # "none" THEN [err |-> srm.err, obj |-> NoRecord]
      ELSE IF ele.err # "none" THEN [err |-> ele.err, obj |-> NoRecord]
      ELSE [err |-> "none",
            obj |-> [tag |-> "lmk",
                     BODY |-> IF body # "None" THEN body_conversion(body) ELSE h[1],
                     lmk_id |-> id,
                     num_cols |-> num_cols,
                     num_rows |-> num_rows,
                     num_pixels |-> num_pixels,
                     anchor_col |-> d[1],
                     anchor_row |-> d[2],
                     resolution |-> d[6],
                     anchor_point |-> Array1(UnpackDoubles(apt, 3, TRUE)),
                     mapRworld |-> rot.mat,
                     srm |-> srm.mat,
                     ele |-> ele.mat]]

---------------------------------------------------------------------------
(* Landmark.__eq__ and numpy.allclose.                                     *)

\* Python's x == y of two floats
FloatEq(x, y) == ~IsNaN(x) /\ ~IsNaN(y) /\ (x = y \/ (IsZero(x) /\ IsZero(y)))

\* 100 * x for a double x that is a multiple of 1/4 of magnitude below 2^15
\* (the finite values the model generates); -1 as the second component
\* otherwise.
Centi(w) ==
  LET e   == F64Exp(w) - 1023
      sig == 8388608 + F64FracHi(w)
      sh  == 21 - e
      sgn == IF F64Sign(w) = 1 THEN -1 ELSE 1
  IN  IF IsZero(w) THEN << 0, 0 >>
      ELSE IF e < -2 \/ e > 14 \/ F64Exp(w) = 0 \/ F64FracLo(w) # 0 \/ sig % Pow2(sh) # 0
        THEN << 0, -1 >>
      ELSE << sgn * 25 * (sig \div Pow2(sh)), 0 >>

\* |x - y| <= atol + rtol * |y| for x, y given in hundredths; the tolerance
\* is [rtol5 |-> rtol / 1e-5, atol8 |-> atol / 1e-8]
WithinTol(x, y, tol) ==
  LET d == Abs(x - y)
  IN  d = 0 \/ (d <= 2000 /\ d * 1000000 <= tol.atol8 + tol.rtol5 * 10 * Abs(y))

\* the defaults of numpy.allclose: rtol=1e-05, atol=1e-08
DefaultTol == [rtol5 |-> 1, atol8 |-> 1]
\* rtol=0, atol=1e-4
RotTol == [rtol5 |-> 0, atol8 |-> 10000]

\* The doubles a float32 widens to (24 significant bits), and 0.0: the
\* smaller biased exponent of x and y, a zero not counted.
UnitExp(x, y) ==
  IF IsZero(x) THEN F64Exp(y)
  ELSE IF IsZero(y) THEN F64Exp(x)
  ELSE Min(F64Exp(x), F64Exp(y))

\* x as a multiple of 2^(e0 - 1046), e0 at most 6 below the exponent of x
InUnits(w, e0) ==
  IF IsZero(w) THEN 0
  ELSE (IF F64Sign(w) = 1 THEN -1 ELSE 1)
         * (8388608 + F64FracHi(w)) * Pow2(F64Exp(w) - e0)

\* x and y have 24 significant bits and exponents at most 6 apart, so
\* that x - y is computed without rounding
Exact24(x, y) ==
  /\ F64FracLo(x) = 0 /\ F64FracLo(y) = 0
  /\ IsZero(x) \/ F64Exp(x) \in 1..2046
  /\ IsZero(y) \/ F64Exp(y) \in 1..2046
  /\ (~IsZero(x) /\ ~IsZero(y)) => Abs(F64Exp(x) - F64Exp(y)) <= 6

\* |x - y| in units of 2^(UnitExp(x, y) - 1046)
UnitDiff(x, y) == Abs(InUnits(x, UnitExp(x, y)) - InUnits(y, UnitExp(x, y)))

\* |x - y| <= t for such x and y and a positive t of 24 significant bits
AbsDiffLE(x, y, t) ==
  LET s == UnitExp(x, y) - F64Exp(t)
      m == 8388608 + F64FracHi(t)
  IN  IF s >= 0 THEN s <= 30 /\ UnitDiff(x, y) <= m \div Pow2(s)
      ELSE s <= (0 - 8) \/ UnitDiff(x, y) <= m * Pow2(0 - s)

\* |x - y| exceeds atol + rtol * |y| for every atol <= 1e-4 and
\* rtol <= 1e-5: in units of 2^(e0 - 1046), e0 >= 1016, the bound is below
\* 1e-4 * 2^30 + 1e-5 * 2^30 < 2^17
FarApart(x, y) == UnitExp(x, y) >= 1016 /\ UnitDiff(x, y) >= 131072

\* a variant with equal_nan=True
IsCloseF_EqualNaN(x, y, tol) ==
  IF IsNaN(x) \/ IsNaN(y) THEN IsNaN(x) /\ IsNaN(y)
  ELSE IF x = y \/ (IsZero(x) /\ IsZero(y)) THEN TRUE
  ELSE IF IsInf(x) \/ IsInf(y) THEN FALSE
  ELSE LET cx_ == Centi(x)
           cy_ == Centi(y)
           decimal == cx_[2] = 0 /\ cy_[2] = 0
           binary == "atol" \in DOMAIN tol
       IN  CASE decimal -> WithinTol(cx_[1], cy_[1], tol)
             [] ~decimal /\ binary /\ Exact24(x, y) /\ tol.rtol5 = 0 ->
                  AbsDiffLE(x, y, tol.atol)
             [] ~decimal /\ ~binary /\ Exact24(x, y) /\ FarApart(x, y)
                  /\ tol.rtol5 <= 1 /\ tol.atol8 <= 10000 -> FALSE

\* numpy.isclose(x, y) of two doubles (equal_nan=False).  Multiples of 1/4
\* are compared in hundredths; other doubles of 24 significant bits are
\* compared exactly against an absolute tolerance that is a double
\* (tol.atol), and against the decimal tolerances when they are far apart.
IsCloseF(x, y, tol) ==
  IF IsNaN(x) \/ IsNaN(y) THEN FALSE
  ELSE IF x = y \/ (IsZero(x) /\ IsZero(y)) THEN TRUE
  ELSE IF IsInf(x) \/ IsInf(y) THEN FALSE
  ELSE LET cx_ == Centi(x)
           cy_ == Centi(y)
           decimal == cx_[2] = 0 /\ cy_[2] = 0
           binary == "atol" \in DOMAIN tol
       IN  CASE decimal -> WithinTol(cx_[1], cy_[1], tol)
             [] ~decimal /\ binary /\ Exact24(x, y) /\ tol.rtol5 = 0 ->
                  AbsDiffLE(x, y, tol.atol)
             [] ~decimal /\ ~binary /\ Exact24(x, y) /\ FarApart(x, y)
                  /\ tol.rtol5 <= 1 /\ tol.atol8 <= 10000 -> FALSE

\* a variant with rtol=1e-2
IsCloseI_Percent(x, y, tol) ==
  WithinTol(100 * x, 100 * y, [rtol5 |-> 1000 * tol.rtol5, atol8 |-> tol.atol8])

\* numpy.isclose(x, y) of two integers
IsCloseI(x, y, tol) == WithinTol(100 * x, 100 * y, tol)

\* a shape as numpy broadcasts it against a 2-D one
Pad2(shape) == IF Len(shape) = 1 THEN << 1, shape[1] >> ELSE shape

Broadcastable(sa, sb) ==
  \A k \in 1..2 : Pad2(sa)[k] = Pad2(sb)[k] \/ Pad2(sa)[k] = 1 \/ Pad2(sb)[k] = 1

BroadcastDim(da, db) == IF da = 1 THEN db ELSE da

\* the element of a at position (i, j) of the broadcast result
BroadcastAt(a, i, j) ==
  LET sh == Pad2(a.shape)
  IN  a.data[(IF sh[1] = 1 THEN 0 ELSE i) * sh[2] + (IF sh[2] = 1 THEN 0 ELSE j) + 1]

\* numpy.allclose(a, b, rtol, atol): "True", "False", or "ValueError" when
\* the shapes do not broadcast; integral says the elements are integers
AllClose(a, b, integral, tol) ==
  IF ~Broadcastable(a.shape, b.shape) THEN "ValueError"
  ELSE LET rows == BroadcastDim(Pad2(a.shape)[1], Pad2(b.shape)[1])
           cols == BroadcastDim(Pad2(a.shape)[2], Pad2(b.shape)[2])
       IN  IF \A i \in 0..(rows - 1) : \A j \in 0..(cols - 1) :
                 IF integral
                   THEN IsCloseI(BroadcastAt(a, i, j), BroadcastAt(b, i, j), tol)
                   ELSE IsCloseF(BroadcastAt(a, i, j), BroadcastAt(b, i, j), tol)
             THEN "True" ELSE "False"

\* a and b and c ... of Python over the results of allclose: the first
\* operand that is not "True" is the result
AndThen(x, y) == IF x # "True" THEN x ELSE y

\* a variant that does not compare the resolutions
Eq_NoResolution(self, other) ==
  IF ~(/\ self.BODY = other.BODY
       /\ self.lmk_id = other.lmk_id
       /\ self.num_cols = other.num_cols
       /\ self.num_rows = other.num_rows
       /\ FloatEq(self.anchor_col, other.anchor_col)
       /\ FloatEq(self.anchor_row, other.anchor_row))
    THEN "False"
    ELSE AndThen(AllClose(self.anchor_point, other.anchor_point, FALSE, DefaultTol),
         AndThen(AllClose(self.mapRworld, other.mapRworld, FALSE, RotTol),
         AndThen(AllClose(self.srm, other.srm, TRUE, DefaultTol),
                 AllClose(self.ele, other.ele, FALSE, DefaultTol))))

\* Landmark.__eq__(self, other) for a Landmark other
Eq(self, other) ==
  IF ~(/\ self.BODY = other.BODY
       /\ self.lmk_id = other.lmk_id
       /\ self.num_cols = other.num_cols
       /\ self.num_rows = other.num_rows
       /\ FloatEq(self.anchor_col, other.anchor_col)
       /\ FloatEq(self.anchor_row, other.anchor_row)
       /\ FloatEq(self.resolution, other.resolution))
    THEN "False"
    ELSE AndThen(AllClose(self.anchor_point, other.anchor_point, FALSE, DefaultTol),
         AndThen(AllClose(self.mapRworld, other.mapRworld, FALSE, RotTol),
         AndThen(AllClose(self.srm, other.srm, TRUE, DefaultTol),
                 AllClose(self.ele, other.ele, FALSE, DefaultTol))))

\* a variant that ignores elevation_tolerance
EleTol_Default(t) == DefaultTol

\* rtol=0, atol=elevation_tolerance, for a tolerance t that is a multiple
\* of 1/4
EleTol(t) == [rtol5 |-> 0, atol8 |-> Centi(t)[1] * 1000000, atol |-> t]

\* an object that is not a Landmark
NotALandmark == [tag |-> "object"]

\* the seven == tests of approx_equal
ExactFieldsEqual(self, other) ==
  /\ self.BODY = other.BODY
  /\ self.lmk_id = other.lmk_id
  /\ self.num_cols = other.num_cols
  /\ self.num_rows = other.num_rows
  /\ FloatEq(self.anchor_col, other.anchor_col)
  /\ FloatEq(self.anchor_row, other.anchor_row)
  /\ FloatEq(self.resolution, other.resolution)

\* Landmark.__eq__(self, other): "True", "False", "NotImplemented" for an
\* other that is no Landmark, or "ValueError" raised by numpy.allclose
EqAny(self, other) ==
  IF other.tag # "lmk" THEN "NotImplemented" ELSE Eq(self, other)

\* the expression self == other: when __eq__ returns NotImplemented,
\* Python asks the other object, and falls back to identity
PyEquals(self, other) ==
  IF EqAny(self, other) = "NotImplemented" THEN "False" ELSE EqAny(self, other)

\* Landmark.approx_equal(self, other, elevation_tolerance)
ApproxEqual(self, other, t) ==
  IF other.tag # "lmk" THEN "NotImplemented"
  ELSE IF ~ExactFieldsEqual(self, other) THEN "False"
  ELSE AndThen(AllClose(self.anchor_point, other.anchor_point, FALSE, DefaultTol),
       AndThen(AllClose(self.mapRworld, other.mapRworld, FALSE, RotTol),
       AndThen(AllClose(self.srm, other.srm, TRUE, DefaultTol),
               AllClose(self.ele, other.ele, FALSE, EleTol(t)))))

\* the fields assess_equality tests, in its order
Fields ==
  << "BODY", "lmk_id", "num_cols", "num_rows", "anchor_col", "anchor_row",
     "resolution", "anchor_point", "mapRworld", "srm", "ele" >>

\* a variant that never tests anchor_row
FieldDiffers_NoAnchorRow(self, other, k) ==
  CASE k = 1 -> IF self.BODY # other.BODY THEN "True" ELSE "False"
    [] k = 2 -> IF self.lmk_id # other.lmk_id THEN "True" ELSE "False"
    [] k = 3 -> IF self.num_cols # other.num_cols THEN "True" ELSE "False"
    [] k = 4 -> IF self.num_rows # other.num_rows THEN "True" ELSE "False"
    [] k = 5 -> IF ~FloatEq(self.anchor_col, other.anchor_col) THEN "True" ELSE "False"
    [] k = 6 -> "False"
    [] k = 7 -> IF ~FloatEq(self.resolution, other.resolution) THEN "True" ELSE "False"
    [] k \in 8..11 ->
         CHOOSE out \in
           { IF r = "ValueError" THEN r ELSE IF r = "True" THEN "False" ELSE "True" :
             r \in { CASE k = 8 -> AllClose(self.anchor_point, other.anchor_point, FALSE, DefaultTol)
                       [] k = 9 -> AllClose(self.mapRworld, other.mapRworld, FALSE, RotTol)
                       [] k = 10 -> AllClose(self.srm, other.srm, TRUE, DefaultTol)
                       [] k = 11 -> AllClose(self.ele, other.ele, FALSE, DefaultTol) } } : TRUE

\* the condition of the k-th if of assess_equality: "True" (the line is
\* printed), "False", or "ValueError" raised by numpy.allclose
FieldDiffers(self, other, k) ==
  CASE k = 1 -> IF self.BODY # other.BODY THEN "True" ELSE "False"
    [] k = 2 -> IF self.lmk_id # other.lmk_id THEN "True" ELSE "False"
    [] k = 3 -> IF self.num_cols # other.num_cols THEN "True" ELSE "False"
    [] k = 4 -> IF self.num_rows # other.num_rows THEN "True" ELSE "False"
    [] k = 5 -> IF ~FloatEq(self.anchor_col, other.anchor_col) THEN "True" ELSE "False"
    [] k = 6 -> IF ~FloatEq(self.anchor_row, other.anchor_row) THEN "True" ELSE "False"
    [] k = 7 -> IF ~FloatEq(self.resolution, other.resolution) THEN "True" ELSE "False"
    [] k \in 8..11 ->
         CHOOSE out \in
           { IF r = "ValueError" THEN r ELSE IF r = "True" THEN "False" ELSE "True" :
             r \in { CASE k = 8 -> AllClose(self.anchor_point, other.anchor_point, FALSE, DefaultTol)
                       [] k = 9 -> AllClose(self.mapRworld, other.mapRworld, FALSE, RotTol)
                       [] k = 10 -> AllClose(self.srm, other.srm, TRUE, DefaultTol)
                       [] k = 11 -> AllClose(self.ele, other.ele, FALSE, DefaultTol) } } : TRUE

RECURSIVE AssessFrom(_, _, _, _)
\* the ifs of assess_equality from the k-th on, after the lines in printed
AssessFrom(self, other, k, printed) ==
  IF k > Len(Fields) THEN [raised |-> "none", returned |-> "None", printed |-> printed]
  ELSE CHOOSE out \in
         { IF d = "ValueError"
             THEN [raised |-> "ValueError", returned |-> "nothing", printed |-> printed]
             ELSE AssessFrom(self, other, k + 1,
                             IF d = "True" THEN Append(printed, Fields[k]) ELSE printed) :
           d \in { FieldDiffers(self, other, k) } } : TRUE

\* Landmark.assess_equality(self, other): the exception raised, the value
\* returned, and the lines printed (each field's line by the field's name)
AssessEquality(self, other) ==
  CHOOSE out \in
    { IF e = "ValueError"
        THEN [raised |-> "ValueError", returned |-> "nothing", printed |-> <<>>]
        ELSE IF e = "True"
          THEN [raised |-> "none", returned |-> "None", printed |-> << "Objects are equal" >>]
        ELSE IF other.tag = "lmk" THEN AssessFrom(self, other, 1, <<>>)
        ELSE [raised |-> "none", returned |-> "NotImplemented", printed |-> <<>>] :
      e \in { PyEquals(self, other) } } : TRUE

---------------------------------------------------------------------------
(* The inputs: records a caller may hold, and files found on disk.         *)

\* float(n) for an integer 0 <= n < 2^23
IntToF64(n) ==
  IF n = 0 THEN F64Make(0, 0, 0)
  ELSE F64Make(0, 1023 + Log2(n), (n - Pow2(Log2(n))) * Pow2(23 - Log2(n)))

NaN64 == << 127, 248, 0, 0, 0, 0, 0, 0 >>
Inf64 == << 127, 240, 0, 0, 0, 0, 0, 0 >>
\* 0.1, which no float32 represents
Tenth64 == << 63, 185, 153, 153, 153, 153, 153, 154 >>

\* the contents generated rasters and buffers are drawn from
Seeds == {0, 1}
Dims == 0..MaxDim

FloatVariants == {"plain", "nan_ele", "inf_ele", "inexact_ele", "nan_anchor", "zero_res"}

\* The record with the given header, rasters of the given actual shapes and
\* contents drawn from seed.  Seed 0 with 2 x 2 rasters is the record
\* num_cols=2, num_rows=2, resolution=10, anchor_col=1, anchor_row=1,
\* map_r_world=identity, anchor_point=(0,0,0), srm=[[0,1],[2,3]],
\* ele=[[0.0,1.0],[2.0,3.0]].
MkRecord(nc, nr, seed, idlen, sshape, eshape, fv) ==
  LET n_e == eshape[1] * eshape[2]
      eleval(k) ==
        IF fv = "nan_ele" /\ k = n_e THEN NaN64
        ELSE IF fv = "inf_ele" /\ k = 1 THEN Inf64
        ELSE IF fv = "inexact_ele" /\ k = 1 THEN Tenth64
        ELSE IntToF64(k - 1 + 10 * seed)
  IN  [tag |-> "lmk",
       BODY |-> seed % 2,
       lmk_id |-> [i \in 1..idlen |-> 65 + ((i + seed) % 26)],
       num_cols |-> nc,
       num_rows |-> nr,
       num_pixels |-> nc * nr,
       anchor_col |-> IntToF64(1 + seed),
       anchor_row |-> IntToF64(1 + 2 * seed),
       resolution |-> IF fv = "zero_res" THEN IntToF64(0) ELSE IntToF64(10 + 5 * seed),
       anchor_point |-> Array1([k \in 1..3 |->
                          IF fv = "nan_anchor" /\ k = 1 THEN NaN64
                          ELSE IntToF64(seed * (k + 3))]),
       mapRworld |-> Array2(3, 3, [k \in 1..9 |->
                          IF seed = 0 THEN IntToF64(IF k \in {1, 5, 9} THEN 1 ELSE 0)
                          ELSE IntToF64(k + seed)]),
       srm |-> Array2(sshape[1], sshape[2],
                      [k \in 1..(sshape[1] * sshape[2]) |-> (k - 1 + 100 * seed) % 256]),
       ele |-> Array2(eshape[1], eshape[2], [k \in 1..n_e |-> eleval(k)])]

\* records whose rasters have the shape the header states
ShapedRecords ==
  { MkRecord(nc, nr, seed, FieldLen, << nr, nc >>, << nr, nc >>, fv) :
      nc \in Dims, nr \in Dims, seed \in Seeds, fv \in FloatVariants }

\* records whose srm or ele has another shape than the header states
MisshapenRecords ==
  UNION { { MkRecord(d[1], d[2], 0, FieldLen, ss, es, "plain") :
              ss \in { << d[2], d[1] >>, << d[2] - 1, d[1] >>, << d[2] + 1, d[1] >>,
                       << d[1], d[2] >> },
              es \in { << d[2], d[1] >>, << d[2] - 1, d[1] >>, << d[2] + 1, d[1] >> } } :
          d \in (1..MaxDim) \X (1..MaxDim) }

\* records whose id is not 32 bytes long
OddIdRecords ==
  { MkRecord(nc, nr, 1, idlen, << nr, nc >>, << nr, nc >>, "plain") :
      nc \in Dims, nr \in Dims, idlen \in {FieldLen - 1, FieldLen + 1} }

Records == ShapedRecords \cup MisshapenRecords \cup OddIdRecords

\* byte p (0-indexed) of a file written by another program: 126 consecutive
\* bytes are pairwise different, and every aligned or unaligned run of them
\* is a normal floating-point number
FillByte(seed, p) == 1 + ((p * 37 + seed * 11) % 126)

\* a canonical file of the given length whose header states body, nc, nr
RawCanonical(seed, body, nc, nr, len) ==
  LET hdr == PackInt(body, FALSE) \o PackInt(nc, FALSE) \o PackInt(nr, FALSE)
  IN  [i \in 1..len |-> IF i > 64 /\ i <= 76 THEN hdr[i - 64] ELSE FillByte(seed, i - 1)]

\* a legacy file of the given length whose header states body, id, nc, nr
RawLegacy(seed, body, id, nc, nr, len) ==
  LET hdr == PackInt(body, TRUE) \o PackInt(id, TRUE) \o PackInt(nc, TRUE) \o PackInt(nr, TRUE)
  IN  [i \in 1..len |-> IF i <= 16 THEN hdr[i] ELSE FillByte(seed, i - 1)]

HeaderDims == -1..MaxDim

\* file lengths around the size a header implies
RawLens(base, nc, nr) ==
  { n \in { 0, 70, base - 1, base + 5 * nc * nr - 1, base + 5 * nc * nr,
            base + 5 * nc * nr + 1 } : n >= 0 }

\* the legacy numeric ids found in the files, one per header
LegacyIds == << 0, 12, 120, -3, 2147483647, -2147483647 >>
LegacyIdOf(seed, nc, nr) == LegacyIds[((2 * seed + nc + 3 * nr + 4) % Len(LegacyIds)) + 1]

RawFiles ==
  { [exists |-> TRUE, format |-> "v3", src |-> NoRecord,
     data |-> RawCanonical(q[1], q[1] + 2, q[2], q[3], q[4])] :
      q \in { q \in Seeds \X HeaderDims \X HeaderDims
                    \X (0..(HeaderSize + 5 * MaxDim * MaxDim + 1)) :
               q[4] \in RawLens(HeaderSize, q[2], q[3]) } }
  \cup
  { [exists |-> TRUE, format |-> "v1", src |-> NoRecord,
     data |-> RawLegacy(q[1], q[1] + 2, LegacyIdOf(q[1], q[2], q[3]), q[2], q[3], q[4])] :
      q \in { q \in Seeds \X Dims \X Dims
                    \X (0..(LegacyHeaderSize + 5 * MaxDim * MaxDim + 1)) :
               q[4] \in RawLens(LegacyHeaderSize, q[2], q[3]) \ {0, 70} } }

---------------------------------------------------------------------------
(* The state machine: a caller holding a record saves it; a file on disk   *)
(* is loaded with either loader; a loaded object is saved again.           *)

Idle == [phase |-> "idle"]
Op(name, body) == [name |-> name, body |-> body]

Init ==
  /\ \/ rec \in Records /\ disk = NoFile
     \/ rec = NoRecord /\ disk \in RawFiles
  /\ lmk = NoRecord
  /\ err = "none"
  /\ op = Op("init", "None")
  /\ cx = Idle

\* a variant that first brings self.lmk_id to 32 bytes
DoSave_FixesId ==
  /\ rec # NoRecord
  /\ \E r \in { Save(rec) } :
       /\ err' = r.err
       /\ disk' = IF r.err = "none"
                    THEN [exists |-> TRUE, format |-> "v3", src |-> rec, data |-> r.buf]
                    ELSE disk
  /\ op' = Op("save", "None")
  /\ rec' = [rec EXCEPT !.lmk_id =
               SubSeq(@ \o [i \in 1..FieldLen |-> PadByte], 1, FieldLen)]
  /\ UNCHANGED << lmk, cx >>

\* rec.save(lmk_file)
DoSave ==
  /\ rec # NoRecord
  /\ \E r \in { Save(rec) } :
       /\ err' = r.err
       /\ disk' = IF r.err = "none"
                    THEN [exists |-> TRUE, format |-> "v3", src |-> rec, data |-> r.buf]
                    ELSE disk
  /\ op' = Op("save", "None")
  /\ UNCHANGED << rec, lmk, cx >>

\* lmk = Landmark(lmk_file)
DoLoad ==
  /\ disk.exists /\ disk.format = "v3"
  /\ \E r \in { Load(disk.data) } : err' = r.err /\ lmk' = r.obj
  /\ op' = Op("load", "None")
  /\ UNCHANGED << rec, disk, cx >>

\* lmk = LegacyLittleEndianLandmark(lmk_file, body)
DoLoadLegacy ==
  /\ disk.exists /\ disk.format = "v1"
  /\ \E body \in {"None", "Earth", "Moon", "Mars", "Venus"} :
       /\ \E r \in { LoadLegacy(disk.data, body) } : err' = r.err /\ lmk' = r.obj
       /\ op' = Op("load_legacy", body)
  /\ UNCHANGED << rec, disk, cx >>

\* the lat, lon, radius arguments: omitted (0.0 each), or given
GeoArgs == {"None", "Given"}
Geo(arg) ==
  IF arg = "None" THEN << Zero64, Zero64, Zero64 >>
  ELSE << IntToF64(4), IntToF64(5), IntToF64(1737) >>

\* a variant that opens the file for writing before it builds the buffer
DoSaveLegacy_OpenFirst ==
  /\ rec # NoRecord /\ Exact(rec)
  /\ \E arg \in GeoArgs :
       /\ \E r \in { SaveLegacy(rec, Geo(arg)) } :
            /\ err' = r.err
            /\ disk' = [exists |-> TRUE, format |-> "v1", src |-> rec,
                        data |-> IF r.err = "none" THEN r.buf ELSE <<>>]
       /\ op' = Op("save_legacy", arg)
  /\ UNCHANGED << rec, lmk, cx >>

\* rec.save_legacy_little_endian(lmk_file[, lat, lon, radius])
DoSaveLegacy ==
  /\ rec # NoRecord /\ Exact(rec)
  /\ \E arg \in GeoArgs :
       /\ \E r \in { SaveLegacy(rec, Geo(arg)) } :
            /\ err' = r.err
            /\ disk' = IF r.err = "none"
                         THEN [exists |-> TRUE, format |-> "v1", src |-> rec, data |-> r.buf]
                         ELSE disk
       /\ op' = Op("save_legacy", arg)
  /\ UNCHANGED << rec, lmk, cx >>

\* a caller that holds no record yet goes on with the object it loaded
\* (gt = Landmark(file); gt.save(...) in landmark.py, and
\* L = LegacyLittleEndianLandmark(infile, planet); L.save(outfile))
DoAdopt ==
  /\ lmk # NoRecord /\ rec = NoRecord
  /\ rec' = lmk
  /\ op' = Op("adopt", "None")
  /\ err' = "none"
  /\ UNCHANGED << disk, lmk, cx >>

Next == DoSave \/ DoSaveLegacy \/ DoLoad \/ DoLoadLegacy \/ DoAdopt

Spec == Init /\ [][Next]_vars

---------------------------------------------------------------------------
(* Direct calls of the matrix codec.                                       *)

\* the element kinds a caller passes: the three supported ones, and two
\* struct knows but the codec does not
CallKinds == {"d", "f", "B", "b", "i"}

\* the shapes a caller passes: [cols, rows], or [cols] for a vector
CallSizes == { << c, r >> : c \in Dims, r \in Dims } \cup { << c >> : c \in Dims }

\* the number of elements of a shape
Count(size) == IF Len(size) = 1 THEN size[1] ELSE size[1] * size[2]

\* element k (from 1) of a generated matrix of the given kind: a byte for
\* the one-byte kinds, a double every float32 represents otherwise
CallElem(type, seed, k) ==
  IF type \in {"d", "f"} THEN IntToF64(k + 2 * seed) ELSE (k + 100 * seed) % 256

\* the matrix of the given shape: (rows, cols) for [cols, rows]
CallMat(type, size, seed) ==
  LET elems == [k \in 1..Count(size) |-> CallElem(type, seed, k)]
  IN  IF Len(size) = 1 THEN Array1(elems) ELSE Array2(size[2], size[1], elems)

\* a buffer that holds the matrix at the offset, and two bytes more
CallBuf(type, size, offset, seed) ==
  [i \in 1..(offset + ByteSize(type) * Count(size) + 2) |-> FillByte(seed, i - 1)]

\* the call with the given arguments, before it is made
CallInput(type, size, little, offset, seed) ==
  [phase |-> "input", type |-> type, size |-> size, little |-> little, offset |-> offset,
   mat |-> CallMat(type, size, seed),
   buf0 |-> CallBuf(type, size, offset, seed),
   buf |-> CallBuf(type, size, offset, seed),
   out |-> Array1(<<>>), err |-> "none"]

CodecInit ==
  /\ \E type \in CallKinds, size \in CallSizes, little \in BOOLEAN,
        offset \in {0, 3}, seed \in Seeds :
       cx = CallInput(type, size, little, offset, seed)
  /\ rec = NoRecord /\ disk = NoFile /\ lmk = NoRecord
  /\ err = "none" /\ op = Op("init", "None")

\* unpack_matrix(type, size, buf[offset:], little_endian)
CallUnpack ==
  /\ cx.phase = "input"
  /\ LET r == UnpackMatrix(cx.type, cx.size, PyTail(cx.buf, cx.offset), cx.little)
     IN  cx' = [cx EXCEPT !.phase = "unpacked", !.out = r.mat, !.err = r.err]
  /\ UNCHANGED << rec, disk, lmk, err, op >>

\* unpack_little_endian_matrix(type, size, buf[offset:])
CallUnpackLittleEndian ==
  /\ cx.phase = "input"
  /\ LET r == UnpackLittleEndianMatrix(cx.type, cx.size, PyTail(cx.buf, cx.offset))
     IN  cx' = [cx EXCEPT !.phase = "unpacked_le", !.out = r.mat, !.err = r.err]
  /\ UNCHANGED << rec, disk, lmk, err, op >>

\* pack_matrix(type, mat, buf, offset, little_endian)
CallPack ==
  /\ cx.phase = "input"
  /\ LET r == PackMatrix(cx.type, cx.mat, cx.buf, cx.offset, cx.little)
     IN  cx' = [cx EXCEPT !.phase = "packed", !.buf = r.buf, !.err = r.err]
  /\ UNCHANGED << rec, disk, lmk, err, op >>

\* after a pack that returned: unpack_matrix(type, shape, buf[offset:],
\* little_endian) with the shape and the byte order of the pack
CallUnpackPacked ==
  /\ cx.phase = "packed" /\ cx.err = "none"
  /\ LET r == UnpackMatrix(cx.type, cx.size, PyTail(cx.buf, cx.offset), cx.little)
     IN  cx' = [cx EXCEPT !.phase = "roundtrip", !.out = r.mat, !.err = r.err]
  /\ UNCHANGED << rec, disk, lmk, err, op >>

CodecNext == CallUnpack \/ CallUnpackLittleEndian \/ CallPack \/ CallUnpackPacked

CodecSpec == CodecInit /\ [][CodecNext]_vars

---------------------------------------------------------------------------
(* Comparisons: a caller holds a record a and another object b, and calls  *)
(* a.__eq__(b), a.approx_equal(b, t) or a.assess_equality(b).              *)

\* the double q / 4, for 0 <= q < 2^23
Quarters(q) ==
  IF q = 0 THEN F64Make(0, 0, 0)
  ELSE F64Make(0, 1021 + Log2(q), (q - Pow2(Log2(q))) * Pow2(23 - Log2(q)))

\* w + q / 4 for a double w that is a non-negative integer
Bump(w, q) == Quarters(4 * MagnitudeOf(w) + q)

\* the float32 nearest w + 0.51, for w = 0.0 and w = 10.0
PlusPoint51(w) ==
  IF IsZero(w) THEN << 63, 224, 81, 235, 128, 0, 0, 0 >>
  ELSE << 64, 37, 5, 30, 192, 0, 0, 0 >>

\* << num_cols, num_rows >> of the records compared: the rasters of the
\* last two have shapes that numpy does not broadcast
CmpShapes == { << 1, 1 >>, << 1, MaxDim >>, << MaxDim, MaxDim >>, << MaxDim + 1, MaxDim >> }

\* the valid record of a shape and a seed
Base(shape, seed) ==
  MkRecord(shape[1], shape[2], seed, 32, << shape[2], shape[1] >>,
           << shape[2], shape[1] >>, "plain")

Bases == { Base(shape, seed) : shape \in CmpShapes, seed \in Seeds }

\* R with ele.flat[k - 1] = w
WithEle(R, k, w) == [R EXCEPT !.ele = [@ EXCEPT !.data = [@ EXCEPT ![k] = w]]]

\* R with mapRworld.flat[k - 1] = w
WithRot(R, k, w) == [R EXCEPT !.mapRworld = [@ EXCEPT !.data = [@ EXCEPT ![k] = w]]]

\* records that differ from a in one field, or in two
Variants(a) ==
  { a,
    [a EXCEPT !.BODY = @ + 1],
    [a EXCEPT !.lmk_id = [@ EXCEPT ![32] = 33]],
    [a EXCEPT !.anchor_col = Neg(@)],
    [a EXCEPT !.anchor_row = NaN64],
    [a EXCEPT !.resolution = Bump(@, 1)],
    [a EXCEPT !.anchor_point = [@ EXCEPT !.data = [@ EXCEPT ![2] = Bump(@, 1)]]],
    WithRot(a, 1, Bump(a.mapRworld.data[1], 1)),
    [a EXCEPT !.srm = [@ EXCEPT !.data = [@ EXCEPT ![1] = (@ + 1) % 256]]],
    WithEle(a, 1, Bump(a.ele.data[1], 1)),
    WithEle(a, 1, Bump(a.ele.data[1], 2)),
    WithEle(a, 1, Bump(a.ele.data[1], 3)),
    WithEle(a, 1, PlusPoint51(a.ele.data[1])),
    WithEle(a, 1, NaN64),
    WithEle(WithEle(a, 1, Bump(a.ele.data[1], 1)),
            Len(a.ele.data), Bump(a.ele.data[Len(a.ele.data)], 2)),
    [WithEle(a, 1, Bump(a.ele.data[1], 2)) EXCEPT !.BODY = @ + 1],
    [a EXCEPT !.anchor_row = Neg(@), !.srm = [@ EXCEPT !.data = [@ EXCEPT ![1] = (@ + 1) % 256]]] }

\* a with an elevation and a rotation entry of 25000.0, and the records
\* that differ from it by 0.25 or 0.5 there
Large(a) == WithRot(WithEle(a, 1, Quarters(100000)), 1, Quarters(100000))
LargeVariants(a) ==
  { Large(a),
    WithEle(Large(a), 1, Quarters(100001)),
    WithEle(Large(a), 1, Quarters(100002)),
    WithRot(Large(a), 1, Quarters(100001)) }

\* a with a NaN in anchor_row, in anchor_point, or in mapRworld
NaNVariants(a) ==
  { [a EXCEPT !.anchor_row = NaN64],
    [a EXCEPT !.anchor_point = [@ EXCEPT !.data = [@ EXCEPT ![2] = NaN64]]],
    WithRot(a, 9, NaN64) }

\* the elevation_tolerance arguments: 0.5 and 0.25
Tolerances == { Quarters(2), Quarters(1) }

CompareIdle == [phase |-> "pair", result |-> "none", printed |-> <<>>, tol |-> Quarters(0)]

CompareInit ==
  /\ \E a \in Bases :
       \/ rec = a /\ lmk \in Variants(a) \cup Bases
       \/ rec = a /\ lmk = NotALandmark
       \/ rec = WithEle(a, 1, NaN64) /\ lmk \in {a, WithEle(a, 1, NaN64)}
       \/ rec \in NaNVariants(a) /\ lmk = rec
       \/ rec = WithEle(a, 1, PlusPoint51(a.ele.data[1])) /\ lmk = a
       \/ rec = Large(a) /\ lmk \in LargeVariants(a)
  /\ disk = NoFile /\ err = "none" /\ op = Op("init", "None")
  /\ cx = CompareIdle

\* a.__eq__(b)
CallEq ==
  /\ \E r \in { EqAny(rec, lmk) } :
       /\ err' = IF r = "ValueError" THEN r ELSE "none"
       /\ cx' = [phase |-> "eq", result |-> r, printed |-> <<>>, tol |-> Quarters(0)]
  /\ op' = Op("eq", "None")
  /\ UNCHANGED << rec, lmk, disk >>

\* a.approx_equal(b, t)
CallApproxEqual ==
  /\ \E t \in Tolerances : \E r \in { ApproxEqual(rec, lmk, t) } :
       /\ err' = IF r = "ValueError" THEN r ELSE "none"
       /\ cx' = [phase |-> "approx", result |-> r, printed |-> <<>>, tol |-> t]
  /\ op' = Op("approx_equal", "None")
  /\ UNCHANGED << rec, lmk, disk >>

\* a.assess_equality(b)
CallAssessEquality ==
  /\ \E r \in { AssessEquality(rec, lmk) } :
       /\ err' = r.raised
       /\ cx' = [phase |-> "assess", result |-> r.returned, printed |-> r.printed,
                 tol |-> Quarters(0)]
  /\ op' = Op("assess_equality", "None")
  /\ UNCHANGED << rec, lmk, disk >>

CompareNext == CallEq \/ CallApproxEqual \/ CallAssessEquality

CompareSpec == CompareInit /\ [][CompareNext]_vars

---------------------------------------------------------------------------
(* A caller that holds a record a and another object b calls the           *)
(* operations of a in any order: a.save, a.save_legacy_little_endian, the  *)
(* three comparisons with b, and the constructors on the file written,     *)
(* whose object is a third one (cx.result).                                *)

\* records for which a save raises: an id of 31 or 33 bytes, rasters of
\* another shape than the header states, a resolution of 0.0, an srm value
\* of 256
FrameRecords ==
  OddIdRecords \cup MisshapenRecords
    \cup { MkRecord(nc, nr, 0, FieldLen, << nr, nc >>, << nr, nc >>, "zero_res") :
             nc \in 1..MaxDim, nr \in 1..MaxDim }
    \cup { [a EXCEPT !.srm = [@ EXCEPT !.data = [@ EXCEPT ![Len(@)] = 256]]] : a \in Bases }

\* the pairs (a, b) the caller holds
FrameInit ==
  /\ \/ \E a \in Bases :
          /\ rec = a
          /\ lmk \in { a, WithEle(a, 1, NaN64), NotALandmark,
                       Base(<< MaxDim, MaxDim >>, 0), Base(<< MaxDim + 1, MaxDim >>, 0) }
     \/ rec \in FrameRecords /\ lmk = NotALandmark
  /\ disk = NoFile /\ err = "none" /\ op = Op("init", "None")
  /\ cx = CompareIdle

\* c = Landmark(lmk_file)
CallLoad ==
  /\ disk.exists /\ disk.format = "v3"
  /\ \E r \in { Load(disk.data) } :
       /\ err' = r.err
       /\ cx' = [phase |-> "load", result |-> r.obj, printed |-> <<>>, tol |-> Quarters(0)]
  /\ op' = Op("load", "None")
  /\ UNCHANGED << rec, lmk, disk >>

\* c = LegacyLittleEndianLandmark(lmk_file, body)
CallLoadLegacy ==
  /\ disk.exists /\ disk.format = "v1"
  /\ \E body \in {"None", "Moon"} :
       /\ \E r \in { LoadLegacy(disk.data, body) } :
            /\ err' = r.err
            /\ cx' = [phase |-> "load_legacy", result |-> r.obj, printed |-> <<>>,
                      tol |-> Quarters(0)]
       /\ op' = Op("load_legacy", body)
  /\ UNCHANGED << rec, lmk, disk >>

FrameNext ==
  \/ DoSave \/ DoSaveLegacy
  \/ CallEq \/ CallApproxEqual \/ CallAssessEquality
  \/ CallLoad \/ CallLoadLegacy

FrameSpec == FrameInit /\ [][FrameNext]_vars

---------------------------------------------------------------------------
(* Claims.                                                                 *)

\* the bytes [a, b) of a file, 0-indexed
Bytes(data, a, b) == SubSeq(data, a + 1, b)

\* a double no float32 conversion changes
F32Representable(w) == F64toF32Low(w) # -1 /\ F32toF64(F64toF32(w)) = w

\* a valid record: dimensions >= 1, a 32-byte id, rasters of the stated
\* shape, srm values in 0..255, ele values float32 represents
ValidRecord(R) ==
  /\ R.num_cols >= 1 /\ R.num_rows >= 1
  /\ R.num_pixels = R.num_cols * R.num_rows
  /\ Len(R.lmk_id) = 32
  /\ R.srm.shape = << R.num_rows, R.num_cols >>
  /\ R.ele.shape = << R.num_rows, R.num_cols >>
  /\ \A k \in 1..Len(R.srm.data) : R.srm.data[k] \in 0..255
  /\ \A k \in 1..Len(R.ele.data) : F32Representable(R.ele.data[k])

\* no floating-point field of the record is NaN
NoNaN(R) ==
  /\ ~IsNaN(R.anchor_col) /\ ~IsNaN(R.anchor_row) /\ ~IsNaN(R.resolution)
  /\ \A k \in 1..Len(R.anchor_point.data) : ~IsNaN(R.anchor_point.data[k])
  /\ \A k \in 1..Len(R.mapRworld.data) : ~IsNaN(R.mapRworld.data[k])
  /\ \A k \in 1..Len(R.ele.data) : ~IsNaN(R.ele.data[k])

\* the last operation loaded the file that save wrote for a valid record
LoadedSaved == op.name = "load" /\ disk.src # NoRecord /\ ValidRecord(disk.src)

\* C1 as stated: for every valid record R, save(R) followed by load yields
\* a record that compares equal (__eq__) to R.
C1_RoundTrip_AsStated ==
  LoadedSaved => (err = "none" /\ Eq(disk.src, lmk) = "True")

\* C1, amended: for every valid record R none of whose floating-point
\* fields is NaN, save(R) followed by load yields a record that compares
\* equal (__eq__) to R.
C1_RoundTrip ==
  (LoadedSaved /\ NoNaN(disk.src)) => (err = "none" /\ Eq(disk.src, lmk) = "True")

\* a non-square valid record was saved and loaded back
C1_Witness ==
  /\ LoadedSaved /\ NoNaN(disk.src) /\ lmk # NoRecord
  /\ disk.src.num_cols = 1 /\ disk.src.num_rows = 2

\* C2: every file save writes has length exactly 196 + num_pixels +
\* 4*num_pixels, whatever the length of the id and the shapes of srm, ele.
C2_SizeLaw ==
  (op.name = "save" /\ err = "none")
    => Len(disk.data) = 196 + rec.num_cols * rec.num_rows + 4 * (rec.num_cols * rec.num_rows)

\* C3: canonical load of a buffer of sufficient length returns a record
\* whose every field is decoded big-endian from its fixed offset: id at
\* [32,64); body, num_cols, num_rows at 64, 68, 72; anchor_col, anchor_row,
\* resolution at 76, 84, 92; anchor_point at 100; map_r_world (i,j) at
\* 124+8*(3*i+j); srm (i,j) at 196+i*num_cols+j; ele (i,j) at
\* 196+num_pixels+4*(i*num_cols+j).
C3_CanonicalLayout ==
  LET b  == disk.data
      nc == Int32Value(Bytes(b, 68, 72))
      nr == Int32Value(Bytes(b, 72, 76))
  IN  (op.name = "load" /\ Len(b) >= 196 /\ nc >= 0 /\ nr >= 0 /\ Len(b) >= 196 + 5 * nc * nr)
        => /\ err = "none"
           /\ lmk.lmk_id = Bytes(b, 32, 64)
           /\ lmk.BODY = Int32Value(Bytes(b, 64, 68))
           /\ lmk.num_cols = nc
           /\ lmk.num_rows = nr
           /\ lmk.anchor_col = Bytes(b, 76, 84)
           /\ lmk.anchor_row = Bytes(b, 84, 92)
           /\ lmk.resolution = Bytes(b, 92, 100)
           /\ \A k \in 0..2 : lmk.anchor_point.data[k + 1] = Bytes(b, 100 + 8 * k, 108 + 8 * k)
           /\ \A i \in 0..2 : \A j \in 0..2 :
                At(lmk.mapRworld, i, j) = Bytes(b, 124 + 8 * (3 * i + j), 132 + 8 * (3 * i + j))
           /\ \A i \in 0..(nr - 1) : \A j \in 0..(nc - 1) :
                /\ At(lmk.srm, i, j) = b[196 + i * nc + j + 1]
                /\ At(lmk.ele, i, j) =
                     F32toF64(Bytes(b, 196 + nc * nr + 4 * (i * nc + j),
                                       200 + nc * nr + 4 * (i * nc + j)))

\* a file of another program, longer than its header implies, with a
\* non-square raster, was loaded
C3_Witness ==
  /\ op.name = "load" /\ err = "none" /\ disk.src = NoRecord
  /\ lmk.num_cols = 2 /\ lmk.num_rows = 1
  /\ Len(disk.data) > 196 + 5 * 2

\* C4: in every file save writes, bytes [0,15) are '#! LVS Map v3.0' and
\* every byte of [15,32) is 0x30; in every id the legacy loader makes,
\* every byte after the decimal text is 0x30; no pad byte is 0x00.
C4_PadByte ==
  /\ (disk.exists /\ disk.format = "v3" /\ disk.src # NoRecord)
       => /\ Bytes(disk.data, 0, 15) = VersionText
          /\ \A i \in 15..31 : disk.data[i + 1] = 48
  /\ (op.name = "load_legacy" /\ err = "none")
       => LET n == Len(DecimalText(Int32Value(Reverse(Bytes(disk.data, 4, 8)))))
          IN  \A i \in (n + 1)..Len(lmk.lmk_id) : lmk.lmk_id[i] = 48

\* the legacy loader made the id of the numeric id -3, and padded it
C4_Witness ==
  /\ op.name = "load_legacy" /\ err = "none"
  /\ Bytes(lmk.lmk_id, 0, 2) = << 45, 51 >> /\ Len(lmk.lmk_id) > 2

\* C5: canonical load of a buffer shorter than 196 + 5*num_cols*num_rows
\* bytes (num_cols, num_rows as its header states them), or shorter than
\* the 196-byte header, fails and returns no record.
C5_Truncation ==
  LET b == disk.data
  IN  (op.name = "load"
       /\ (Len(b) < 196
           \/ Len(b) < 196 + 5 * Int32Value(Bytes(b, 68, 72)) * Int32Value(Bytes(b, 72, 76))))
        => (err = "struct.error" /\ lmk = NoRecord)

\* C6: save of a record whose srm or ele shape is not (num_rows, num_cols)
\* fails with an error and writes no file.
C6_DimensionMismatch ==
  (op.name = "save"
   /\ (rec.srm.shape # << rec.num_rows, rec.num_cols >>
       \/ rec.ele.shape # << rec.num_rows, rec.num_cols >>))
    => (err # "none" /\ ~disk.exists)

LegacyLoaded == op.name = "load_legacy" /\ err = "none"

\* the int32 the legacy file stores at byte offset off
LegacyInt(off) == Int32Value(Reverse(Bytes(disk.data, off, off + 4)))

RECURSIVE IsDigitsOf(_, _)
\* t is the decimal digits of m >= 0, most significant first, no leading 0
IsDigitsOf(t, m) ==
  IF Len(t) = 0 THEN FALSE
  ELSE IF Len(t) = 1 THEN m \in 0..9 /\ t[1] = 48 + m
  ELSE /\ m >= 10
       /\ t[Len(t)] = 48 + (m % 10)
       /\ IsDigitsOf(SubSeq(t, 1, Len(t) - 1), m \div 10)

\* t is the decimal text of the integer n: '-' and digits for n < 0
IsDecimalOf(t, n) ==
  IF n < 0 THEN Len(t) >= 2 /\ t[1] = 45 /\ IsDigitsOf(SubSeq(t, 2, Len(t)), 0 - n)
  ELSE IsDigitsOf(t, n)

\* C11: for every int32 legacy_numeric_id n, zero and negative included,
\* the id after legacy load is exactly 32 bytes: the decimal text of n
\* followed only by ASCII '0' bytes.
C11_LegacyId ==
  LegacyLoaded
    => /\ Len(lmk.lmk_id) = 32
       /\ \E k \in 1..11 :
            /\ IsDecimalOf(SubSeq(lmk.lmk_id, 1, k), LegacyInt(4))
            /\ \A i \in (k + 1)..32 : lmk.lmk_id[i] = 48

\* the largest negative id of the model was loaded: eleven characters of
\* text and twenty-one of padding
C11_Witness ==
  /\ LegacyLoaded /\ LegacyInt(4) = -2147483647
  /\ lmk.lmk_id[1] = 45 /\ lmk.lmk_id[11] = 55 /\ lmk.lmk_id[12] = 48

\* C12: legacy load with the override Earth, Moon or Mars sets the body to
\* 0, 1, 0 whatever the file stores; with no override the stored body is
\* kept; the override changes no other field of the loaded record.
C12_BodyOverride ==
  LegacyLoaded
    => LET plain == LoadLegacy(disk.data, "None")
       IN  /\ op.body = "Earth" => lmk.BODY = 0
           /\ op.body = "Moon" => lmk.BODY = 1
           /\ op.body = "Mars" => lmk.BODY = 0
           /\ op.body = "None" => lmk.BODY = LegacyInt(0)
           /\ op.body \in {"Earth", "Moon", "Mars", "None"}
           /\ plain.err = "none"
           /\ [lmk EXCEPT !.BODY = LegacyInt(0)] = plain.obj

\* a file that stores a body other than 0 was loaded with the override Mars
C12_Witness ==
  /\ LegacyLoaded /\ op.body = "Mars" /\ lmk.BODY = 0
  /\ LegacyInt(0) \notin {0, 1} /\ lmk.num_cols > 0 /\ lmk.num_rows > 0

\* the last operation read, with the legacy loader (given no body, or a
\* body it knows), the file that save_legacy_little_endian wrote for a
\* valid record
LegacyRoundTrip ==
  /\ op.name = "load_legacy" /\ op.body \in BodyNames \cup {"None"}
  /\ disk.src # NoRecord /\ ValidRecord(disk.src)

\* the n doubles the file on disk holds, little-endian, from offset off
LegacyDoubles(off, n) == UnpackDoubles(Bytes(disk.data, off, off + 8 * n), n, TRUE)

\* C13: the legacy loader reads the file save_legacy_little_endian wrote
\* for a valid record R into a record whose mapRworld, resolution,
\* anchor_col, anchor_row, num_cols, num_rows, anchor_point, srm and ele
\* are those of R, and whose BODY is R's unless the loader was given a
\* body; the derived fields lie in [88,184) and [256,312), the regions
\* the loader skips, and the arguments lat, lon, radius in [32,56).
C13_LegacyExportImport ==
  LegacyRoundTrip =>
    LET R == disk.src
    IN  /\ err = "none"
        /\ lmk.mapRworld = R.mapRworld
        /\ lmk.resolution = R.resolution
        /\ lmk.anchor_col = R.anchor_col /\ lmk.anchor_row = R.anchor_row
        /\ lmk.num_cols = R.num_cols /\ lmk.num_rows = R.num_rows
        /\ lmk.num_pixels = R.num_pixels
        /\ lmk.anchor_point = R.anchor_point
        /\ lmk.srm = R.srm /\ lmk.ele = R.ele
        /\ op.body = "None" => lmk.BODY = R.BODY
        /\ LegacyDoubles(88, 3)[1] = R.resolution
        /\ LegacyDoubles(88, 6)[5] = Neg(R.resolution)
        /\ LegacyDoubles(136, 6)[3] = R.anchor_col
        /\ LegacyDoubles(136, 6)[6] = R.anchor_row
        /\ \A k \in 1..3 : LegacyDoubles(256, 3)[k] = At(R.mapRworld, k - 1, 2)
        /\ \A k \in 1..3 : LegacyDoubles(280, 4)[k] = At(R.mapRworld, k - 1, 2)
        /\ Len(disk.data) = LegacyHeaderSize + 5 * R.num_pixels

\* a 2 x 2 record with a nonzero anchor point came back from its legacy file
C13_Witness ==
  /\ LegacyRoundTrip /\ err = "none" /\ op.body = "None"
  /\ lmk.num_cols = 2 /\ lmk.num_rows = 2
  /\ lmk.anchor_point = disk.src.anchor_point
  /\ ~IsZero(lmk.anchor_point.data[3]) /\ lmk.ele = disk.src.ele

\* save_legacy_little_endian has just written the file of the record rec
LegacySaved == op.name = "save_legacy" /\ err = "none" /\ disk.src = rec

\* other ids for a record: 32 bytes '1', and its own id reversed
OtherIds(R) == { [i \in 1..32 |-> 49], Reverse(R.lmk_id) }

\* C14: every file save_legacy_little_endian writes holds the integer 1,
\* little-endian, in bytes [4,8), and its arguments lat, lon, radius
\* (0.0 each when omitted) in bytes [32,56); the record with another id
\* gives the same bytes.
C14_LegacyIdLoss ==
  LegacySaved =>
    /\ Bytes(disk.data, 4, 8) = << 1, 0, 0, 0 >>
    /\ op.body = "None" => \A i \in 33..56 : disk.data[i] = 0
    /\ op.body = "Given" =>
         LegacyDoubles(32, 3) = << IntToF64(4), IntToF64(5), IntToF64(1737) >>
    /\ \A id \in OtherIds(rec) :
         SaveLegacy([rec EXCEPT !.lmk_id = id], Geo(op.body)) =
           [err |-> "none", buf |-> disk.data]

\* a 2 x 1 record whose id is not its reverse was exported with lat, lon
\* and radius given
C14_Witness ==
  /\ LegacySaved /\ op.body = "Given"
  /\ rec.num_cols = 2 /\ rec.num_rows = 1
  /\ Reverse(rec.lmk_id) # rec.lmk_id
  /\ LegacyDoubles(32, 3)[3] = IntToF64(1737)

\* the integer a double holds (a small integer, IsSmallInt)
IntOf(w) == IF F64Sign(w) = 1 THEN 0 - MagnitudeOf(w) ELSE MagnitudeOf(w)

\* For a double u with 2^-7 <= |u| <= 1 and an integer 1 <= n < 2^7: the
\* integer d with |u| * n = 1 + d * 2^(E - 1075), E the biased exponent of
\* u; the 53-bit significand of u times n is computed in three limbs of
\* 24, 15 and 14 bits.  OffBy is 99999 when |u| * n is not near 1.
OffBy(u, n) ==
  LET K  == 1075 - F64Exp(u)
      A  == (8388608 + F64FracHi(u)) * n
      B  == (F64FracLo(u) \div 16384) * n
      C  == (F64FracLo(u) % 16384) * n
      a  == A - Pow2(K - 29)
      t  == a * 32768 + B
  IN  IF K \notin 52..59 \/ n \notin 1..127 THEN 99999
      ELSE IF Abs(a) > 128 THEN 99999
      ELSE IF Abs(t) > 1024 THEN 99999
      ELSE t * 16384 + C

\* the pixels the transforms are applied to
Pixels == (0 - 1)..MaxDim

\* C15: in every file save_legacy_little_endian writes (resolution > 0),
\* col_row2mapxy = [[res, 0, -res*anchor_col], [0, -res, res*anchor_row]]
\* at [88,136) and mapxy2col_row = [[u, 0, anchor_col], [0, -u, anchor_row]]
\* at [136,184) with u the double nearest 1/res; col_row2mapxy maps the
\* anchor pixel to (0, 0), and for every pixel (c, r), col_row2mapxy then
\* mapxy2col_row, applied in exact arithmetic to the doubles written,
\* returns (c, r) within 2^-30.
C15_TransformInverse ==
  LegacySaved =>
    LET M1  == LegacyDoubles(88, 6)
        M2  == LegacyDoubles(136, 6)
        res == IntOf(rec.resolution)
        ac  == IntOf(rec.anchor_col)
        ar  == IntOf(rec.anchor_row)
        K   == 1075 - F64Exp(M2[1])
        d   == OffBy(M2[1], res)
        X(c, r) == IntOf(M1[1]) * c + IntOf(M1[2]) * r + IntOf(M1[3])
        Y(c, r) == IntOf(M1[4]) * c + IntOf(M1[5]) * r + IntOf(M1[6])
    IN  /\ res > 0
        /\ \A k \in 1..6 : IsSmallInt(M1[k])
        /\ << IntOf(M1[1]), IntOf(M1[2]), IntOf(M1[3]) >> = << res, 0, 0 - res * ac >>
        /\ << IntOf(M1[4]), IntOf(M1[5]), IntOf(M1[6]) >> = << 0, 0 - res, res * ar >>
        /\ F64Sign(M2[1]) = 0 /\ M2[5] = Neg(M2[1]) /\ 2 * Abs(d) <= res
        /\ IsZero(M2[2]) /\ IsZero(M2[4])
        /\ M2[3] = rec.anchor_col /\ M2[6] = rec.anchor_row
        /\ X(ac, ar) = 0 /\ Y(ac, ar) = 0
        /\ \A c \in Pixels, r \in Pixels :
             \* x = res * qx and y = res * qy; u * x + anchor_col is
             \* qx + anchor_col + qx * d * 2^-K, and -u * y + anchor_row is
             \* -qy + anchor_row - qy * d * 2^-K
             /\ X(c, r) % res = 0 /\ Y(c, r) % res = 0
             /\ (X(c, r) \div res) + ac = c
             /\ (0 - (Y(c, r) \div res)) + ar = r
             /\ Abs((X(c, r) \div res) * d) <= Pow2(K - 30)
             /\ Abs((Y(c, r) \div res) * d) <= Pow2(K - 30)

\* a file was written for a resolution of 15, whose reciprocal no double
\* holds exactly
C15_Witness ==
  /\ LegacySaved /\ IntOf(rec.resolution) = 15
  /\ OffBy(LegacyDoubles(136, 6)[1], 15) # 0
  /\ IntOf(LegacyDoubles(88, 6)[3]) = 0 - 15 * IntOf(rec.anchor_col)
  /\ IntOf(rec.anchor_col) # IntOf(rec.anchor_row)

\* the file on disk holds the third column of R.mapRworld as
\* map_normal_vector at [256,280) and again as the first three entries of
\* map_plane_params at [280,312)
NormalWritten(R) ==
  \A k \in 1..3 : /\ LegacyDoubles(256, 3)[k] = At(R.mapRworld, k - 1, 2)
                  /\ LegacyDoubles(280, 4)[k] = At(R.mapRworld, k - 1, 2)

\* n . anchor_point + d = 0 for the n and d the file on disk holds: all
\* seven numbers are integers, so sum and products are exact
PlaneResidualZero(R) ==
  LET n == LegacyDoubles(256, 3)
      d == LegacyDoubles(280, 4)[4]
      p == R.anchor_point.data
  IN  /\ \A k \in 1..3 : IsSmallInt(n[k]) /\ IsSmallInt(p[k])
      /\ IsSmallInt(d)
      /\ IntOf(n[1]) * IntOf(p[1]) + IntOf(n[2]) * IntOf(p[2])
           + IntOf(n[3]) * IntOf(p[3]) + IntOf(d) = 0

\* no entry of the anchor point or of the third column of mapRworld is
\* NaN or infinite
FinitePlane(R) ==
  \A k \in 1..3 : /\ ~IsNaN(R.anchor_point.data[k]) /\ ~IsInf(R.anchor_point.data[k])
                  /\ ~IsNaN(At(R.mapRworld, k - 1, 2)) /\ ~IsInf(At(R.mapRworld, k - 1, 2))

\* C16 as stated: for every record, the file the legacy exporter writes
\* holds n = the third column of mapRworld and map_plane_params = [n, d]
\* with n . anchor_point + d = 0.
C16_PlaneConsistency_AsStated ==
  LegacySaved => (NormalWritten(rec) /\ PlaneResidualZero(rec))

\* C16, amended: for every record, the file the legacy exporter writes
\* holds n = the third column of mapRworld, as map_normal_vector and as
\* the first three entries of map_plane_params; when the anchor point and
\* that column are finite, d = -(n . anchor_point) and
\* n . anchor_point + d = 0; when an anchor point entry is NaN, d is NaN.
C16_PlaneConsistency ==
  LegacySaved =>
    /\ NormalWritten(rec)
    /\ FinitePlane(rec) => PlaneResidualZero(rec)
    /\ (\E k \in 1..3 : IsNaN(rec.anchor_point.data[k])) => IsNaN(LegacyDoubles(280, 4)[4])

\* a file was written whose plane has a nonzero offset d
C16_Witness ==
  /\ LegacySaved /\ FinitePlane(rec)
  /\ IsSmallInt(LegacyDoubles(280, 4)[4]) /\ IntOf(LegacyDoubles(280, 4)[4]) < 0
  /\ At(rec.mapRworld, 0, 2) # At(rec.mapRworld, 2, 0)

\* a load (canonical or legacy) that returned a record
Loaded == op.name \in {"load", "load_legacy"} /\ err = "none" /\ lmk # NoRecord

\* C21: every record returned by the canonical or the legacy loader, for a
\* header with num_cols >= 0 and num_rows >= 0 (zero included), has
\* num_pixels = num_cols * num_rows, srm.shape = ele.shape =
\* (num_rows, num_cols), a 3x3 map_r_world and an anchor_point of 3 entries.
C21_LoadedShapes ==
  (Loaded /\ lmk.num_cols >= 0 /\ lmk.num_rows >= 0) =>
     /\ lmk.num_pixels = lmk.num_cols * lmk.num_rows
     /\ lmk.srm.shape = << lmk.num_rows, lmk.num_cols >>
     /\ lmk.ele.shape = << lmk.num_rows, lmk.num_cols >>
     /\ lmk.mapRworld.shape = << 3, 3 >>
     /\ lmk.anchor_point.shape = << 3 >>

\* the buffer with bytes [0,32) replaced by v (as far as the buffer reaches)
WithVersion(data, v) == [i \in 1..Len(data) |-> IF i <= FieldLen THEN v[i] ELSE data[i]]

\* contents of a version field: null bytes, 0xFF bytes, a count
VersionFills ==
  { [i \in 1..FieldLen |-> 0], [i \in 1..FieldLen |-> 255], [i \in 1..FieldLen |-> i] }

\* C22: the canonical loader ignores bytes [0,32): a buffer that differs from
\* the loaded one only there loads to the same outcome, a record with
\* identical fields or the same exception, whatever the bytes are.
C22_VersionIgnored ==
  op.name = "load" =>
    \A v \in VersionFills :
       Load(WithVersion(disk.data, v)) = [err |-> err, obj |-> lmk]

\* a file whose version field is not the v3 signature, and none of the
\* contents tried, was loaded into a record with pixels
C22_Witness ==
  /\ Loaded /\ op.name = "load"
  /\ lmk.num_pixels > 0
  /\ PySlice(disk.data, 0, Len(VersionText)) # VersionText
  /\ \A v \in VersionFills : WithVersion(disk.data, v) # disk.data

\* the 0-indexed offsets of a legacy file that the loader does not store:
\* lat, long, radius; col_row2mapxy, mapxy2col_row; map_normal_vector;
\* map_plane_params
SkippedOffsets == (32..55) \cup (88..183) \cup (256..279) \cup (280..311)

\* the buffer with its skipped regions filled by fill(i) = (a * i + c) % 256
WithSkipped(data, a, c) ==
  [i \in 1..Len(data) |-> IF (i - 1) \in SkippedOffsets THEN (a * i + c) % 256 ELSE data[i]]

\* fills: null bytes, 0xFF bytes (NaN doubles), a count
SkippedFills == { << 0, 0 >>, << 0, 255 >>, << 1, 0 >> }

\* C24: the legacy loader's record does not depend on bytes [32,56),
\* [88,184), [256,280), [280,312): a buffer that differs from the loaded
\* one only there loads to the same outcome, a record with identical fields
\* or the same exception, however inconsistent the derived values are.
C24_SkippedIgnored ==
  op.name = "load_legacy" =>
    \A f \in SkippedFills :
       LoadLegacy(WithSkipped(disk.data, f[1], f[2]), op.body) = [err |-> err, obj |-> lmk]

\* a file written by the legacy exporter, whose derived values are
\* consistent, was loaded into a record with pixels, and every fill tried
\* changes it
C24_Witness ==
  /\ LegacyLoaded /\ disk.src # NoRecord
  /\ lmk.num_pixels > 0
  /\ \A f \in SkippedFills : WithSkipped(disk.data, f[1], f[2]) # disk.data

\* a canonical file of exactly the length its header implies, with
\* dimensions >= 0, was loaded into a record without NaN
LoadedExact ==
  /\ op.name = "load" /\ err = "none" /\ lmk # NoRecord
  /\ lmk.num_cols >= 0 /\ lmk.num_rows >= 0
  /\ Len(disk.data) = HeaderSize + 5 * lmk.num_cols * lmk.num_rows
  /\ NoNaN(lmk)

\* the 32-byte version field save writes
Signature == VersionText \o [i \in 1..(FieldLen - Len(VersionText)) |-> PadByte]

\* C26: for every canonical buffer F of length 196 + 5*num_cols*num_rows
\* (dimensions >= 0, no NaN), save(load(F)) has the length of F, equals F on
\* [32, end) and carries the v3 signature on [0,32); and
\* save(load(save(load(F)))) is byte-identical to save(load(F)).
C26_ResaveStable ==
  LoadedExact =>
    \A s1 \in { Save(lmk) } :
       /\ s1.err = "none"
       /\ Len(s1.buf) = Len(disk.data)
       /\ PyTail(s1.buf, FieldLen) = PyTail(disk.data, FieldLen)
       /\ PySlice(s1.buf, 0, FieldLen) = Signature
       /\ \A l2 \in { Load(s1.buf) } :
            /\ l2.err = "none"
            /\ Save(l2.obj) = s1

\* such a file with pixels, written by another program (no signature in
\* its version field), was loaded
C26_Witness ==
  /\ LoadedExact /\ disk.src = NoRecord
  /\ lmk.num_cols > 1 /\ lmk.num_rows > 1
  /\ PySlice(disk.data, 0, FieldLen) # Signature

\* the legacy buffer with the int32 m as its id, at bytes [4,8)
WithLegacyId(data, m) ==
  [i \in 1..Len(data) |-> IF i \in 5..8 THEN PackInt(m, TRUE)[i - 4] ELSE data[i]]

RECURSIVE StripTens(_)
\* n without its trailing decimal zeros
StripTens(n) == IF n # 0 /\ n % 10 = 0 THEN StripTens(n \div 10) ELSE n

\* one of n and m is the other times a power of ten
PowerOfTenApart(n, m) == StripTens(n) = StripTens(m)

\* the ids put in place of the one the file has
AlternativeIds == { 0, 1, 10, 12, 120, 1200, 21, -30 }

\* the legacy file loaded, with the id m instead, loaded the same way
Reloaded(m) == LoadLegacy(WithLegacyId(disk.data, m), op.body)

\* the ids of the two records are the same 32 bytes exactly when the
\* numeric ids are a power of ten apart, and then every field is the same
SameIdIffTensApart(o, m) ==
  /\ o.err = "none"
  /\ (o.obj.lmk_id = lmk.lmk_id) <=> PowerOfTenApart(LegacyInt(4), m)
  /\ PowerOfTenApart(LegacyInt(4), m) => o.obj = lmk
  /\ ~PowerOfTenApart(LegacyInt(4), m) => Eq(lmk, o.obj) = "False"

\* C29 as stated: legacy ids n and 10*n give the same 32-byte id, so two
\* legacy files that differ only in such ids load to records that compare
\* equal; ids not related by a power of ten give different ids.
C29_IdNotInjective_AsStated ==
  LegacyLoaded =>
    \A m \in AlternativeIds : \A o \in { Reloaded(m) } :
       /\ SameIdIffTensApart(o, m)
       /\ PowerOfTenApart(LegacyInt(4), m) => Eq(lmk, o.obj) = "True"

\* C29: legacy ids n and 10*n give the same 32-byte id, so two legacy
\* files that differ only in such ids load to records with identical
\* fields, which compare equal when no floating-point field is NaN; ids
\* not related by a power of ten give different ids and unequal records.
C29_IdNotInjective ==
  LegacyLoaded =>
    \A m \in AlternativeIds : \A o \in { Reloaded(m) } :
       /\ SameIdIffTensApart(o, m)
       /\ PowerOfTenApart(LegacyInt(4), m) =>
            Eq(lmk, o.obj) = (IF NoNaN(lmk) THEN "True" ELSE "False")

\* a file with the id 12 and pixels was loaded; with the id 120 it loads
\* to the same id
C29_Witness ==
  /\ LegacyLoaded /\ LegacyInt(4) = 12
  /\ lmk.num_pixels > 0 /\ NoNaN(lmk)
  /\ Reloaded(120).obj.lmk_id = lmk.lmk_id
  /\ WithLegacyId(disk.data, 120) # disk.data

---------------------------------------------------------------------------
(* Claims about the comparisons, under CompareSpec.                        *)

\* x and y are the same number (no NaN is; 0.0 and -0.0 are)
ExactlyEqual(x, y) == ~IsNaN(x) /\ ~IsNaN(y) /\ (x = y \/ (IsZero(x) /\ IsZero(y)))

\* body, id, num_cols, num_rows, anchor_col, anchor_row and resolution of
\* a and b are exactly equal
ExactFieldsAgree(a, b) ==
  /\ a.BODY = b.BODY /\ a.lmk_id = b.lmk_id
  /\ a.num_cols = b.num_cols /\ a.num_rows = b.num_rows
  /\ ExactlyEqual(a.anchor_col, b.anchor_col)
  /\ ExactlyEqual(a.anchor_row, b.anchor_row)
  /\ ExactlyEqual(a.resolution, b.resolution)

\* the arrays A and B have one shape and agree element by element within
\* the tolerance
Elementwise(A, B, integral, tol) ==
  /\ A.shape = B.shape
  /\ \A k \in 1..Len(A.data) :
       IF integral THEN IsCloseI(A.data[k], B.data[k], tol)
       ELSE IsCloseF(A.data[k], B.data[k], tol)

\* anchor_point and srm agree within 1e-8 + 1e-5 * |y|, and mapRworld
\* within 1e-4
OtherArraysAgree(a, b) ==
  /\ Elementwise(a.anchor_point, b.anchor_point, FALSE, [rtol5 |-> 1, atol8 |-> 1])
  /\ Elementwise(a.mapRworld, b.mapRworld, FALSE, [rtol5 |-> 0, atol8 |-> 10000])
  /\ Elementwise(a.srm, b.srm, TRUE, [rtol5 |-> 1, atol8 |-> 1])

\* the rasters of R have the shape its header states
Shaped(R) ==
  /\ R.srm.shape = << R.num_rows, R.num_cols >>
  /\ R.ele.shape = << R.num_rows, R.num_cols >>

\* the last call compared two records with rasters of the stated shapes
ComparedRecords(phase) ==
  cx.phase = phase /\ lmk.tag = "lmk" /\ Shaped(rec) /\ Shaped(lmk)

\* C17: a.__eq__(b) is True exactly when the seven exact fields are
\* exactly equal, anchor_point, srm and ele agree element-wise within
\* 1e-8 + 1e-5 * |y|, and mapRworld agrees element-wise within 1e-4; it is
\* False otherwise.
C17_EqualSemantics ==
  ComparedRecords("eq") =>
    cx.result =
      (IF /\ ExactFieldsAgree(rec, lmk)
          /\ OtherArraysAgree(rec, lmk)
          /\ Elementwise(rec.ele, lmk.ele, FALSE, [rtol5 |-> 1, atol8 |-> 1])
        THEN "True" ELSE "False")

\* two records that differ in an elevation, 25000.0 and 25000.25, compared
\* equal
C17_Witness ==
  /\ ComparedRecords("eq") /\ cx.result = "True"
  /\ rec.ele # lmk.ele /\ rec.mapRworld = lmk.mapRworld

\* the absolute tolerance t = 0.5 or 0.25, with no relative component
AbsoluteOnly(t) ==
  [rtol5 |-> 0, atol8 |-> IF t = Quarters(2) THEN 50000000 ELSE 25000000, atol |-> t]

\* C18: for records a and b that pass the tests of __eq__ on every field
\* other than ele, a.approx_equal(b, t) is True exactly when every
\* |a.ele - b.ele| <= t; when a field other than ele fails its test, it is
\* False.  With t = 0.5 it is True for an elevation difference of 0.5 and
\* False for one of 0.51 or 0.75; with t = 0.25 it is True for 0.25 and
\* False for 0.5, at an elevation of 25000.0 too.
C18_ToleranceLaw ==
  ComparedRecords("approx") =>
    /\ cx.result =
         (IF /\ ExactFieldsAgree(rec, lmk)
             /\ OtherArraysAgree(rec, lmk)
             /\ Elementwise(rec.ele, lmk.ele, FALSE, AbsoluteOnly(cx.tol))
           THEN "True" ELSE "False")
    /\ (cx.tol = Quarters(2) /\ IsSmallInt(rec.ele.data[1])) =>
         /\ lmk = WithEle(rec, 1, Bump(rec.ele.data[1], 2)) => cx.result = "True"
         /\ lmk = WithEle(rec, 1, PlusPoint51(rec.ele.data[1])) => cx.result = "False"
         /\ lmk = WithEle(rec, 1, Bump(rec.ele.data[1], 3)) => cx.result = "False"
    /\ (cx.tol = Quarters(1) /\ IsSmallInt(rec.ele.data[1])) =>
         /\ lmk = WithEle(rec, 1, Bump(rec.ele.data[1], 1)) => cx.result = "True"
         /\ lmk = WithEle(rec, 1, Bump(rec.ele.data[1], 2)) => cx.result = "False"

\* approx_equal with tolerance 0.5 accepted two records whose elevations
\* differ by 0.25 in one cell and by 0.5 in another
C18_Witness ==
  /\ ComparedRecords("approx") /\ cx.tol = Quarters(2) /\ cx.result = "True"
  /\ Len(rec.ele.data) > 1
  /\ lmk.ele.data[1] = Bump(rec.ele.data[1], 1)
  /\ lmk.ele.data[Len(rec.ele.data)] = Bump(rec.ele.data[Len(rec.ele.data)], 2)

\* approx_equal with tolerance 0.5 rejected two records whose elevations
\* differ by 0.51
C18_Witness_Above ==
  /\ ComparedRecords("approx") /\ cx.tol = Quarters(2) /\ cx.result = "False"
  /\ lmk = WithEle(rec, 1, PlusPoint51(rec.ele.data[1]))

\* C19: a.assess_equality(b) raises nothing, for every pair of records a
\* and b (records of different num_cols or num_rows included) and for a
\* b that is no record.
C19_DiagnoseNeverRaises ==
  cx.phase = "assess" => err = "none"

\* the test of __eq__ on the arrays A and B is False
ArrayTestFails(A, B, integral, tol) ==
  IF A.shape = B.shape THEN ~Elementwise(A, B, integral, tol)
  ELSE AllClose(A, B, integral, tol) = "False"

\* the test __eq__ makes on the k-th of the eleven fields is False
TestFails(a, b, k) ==
  CASE k = 1 -> a.BODY # b.BODY
    [] k = 2 -> a.lmk_id # b.lmk_id
    [] k = 3 -> a.num_cols # b.num_cols
    [] k = 4 -> a.num_rows # b.num_rows
    [] k = 5 -> ~ExactlyEqual(a.anchor_col, b.anchor_col)
    [] k = 6 -> ~ExactlyEqual(a.anchor_row, b.anchor_row)
    [] k = 7 -> ~ExactlyEqual(a.resolution, b.resolution)
    [] k = 8 -> ArrayTestFails(a.anchor_point, b.anchor_point, FALSE, [rtol5 |-> 1, atol8 |-> 1])
    [] k = 9 -> ArrayTestFails(a.mapRworld, b.mapRworld, FALSE, [rtol5 |-> 0, atol8 |-> 10000])
    [] k = 10 -> ArrayTestFails(a.srm, b.srm, TRUE, [rtol5 |-> 1, atol8 |-> 1])
    [] k = 11 -> ArrayTestFails(a.ele, b.ele, FALSE, [rtol5 |-> 1, atol8 |-> 1])

\* the names of the eleven fields, as the printed lines name them
FieldNames ==
  << "BODY", "lmk_id", "num_cols", "num_rows", "anchor_col", "anchor_row",
     "resolution", "anchor_point", "mapRworld", "srm", "ele" >>

\* the lines printed so far
Printed == { cx.printed[i] : i \in 1..Len(cx.printed) }

\* C20: for records a and b, a.assess_equality(b) prints 'Objects are
\* equal' and nothing else exactly when no test of __eq__ fails.
\* Otherwise it prints no line twice, prints no field whose test passes,
\* and prints at least one line; when it returns, it has printed every
\* field whose test fails.
C20_DiagnoseAgrees ==
  ComparedRecords("assess") =>
    LET failing == { k \in 1..11 : TestFails(rec, lmk, k) }
    IN  /\ (failing = {}) <=> (cx.printed = << "Objects are equal" >>)
        /\ (failing = {}) => err = "none"
        /\ failing # {} =>
             /\ Len(cx.printed) = Cardinality(Printed)
             /\ Printed \subseteq { FieldNames[k] : k \in failing }
             /\ Printed # {}
             /\ err = "none" => Printed = { FieldNames[k] : k \in failing }

\* assess_equality reported two fields, an exact one and a raster
C20_Witness ==
  /\ ComparedRecords("assess") /\ err = "none"
  /\ cx.printed = << "anchor_row", "srm" >>

\* no entry of anchor_point, mapRworld or ele is NaN
ArraysNoNaN(R) ==
  /\ \A k \in 1..Len(R.anchor_point.data) : ~IsNaN(R.anchor_point.data[k])
  /\ \A k \in 1..Len(R.mapRworld.data) : ~IsNaN(R.mapRworld.data[k])
  /\ \A k \in 1..Len(R.ele.data) : ~IsNaN(R.ele.data[k])

\* the last call compared a record with itself
ComparedWithItself == cx.phase \in {"eq", "approx"} /\ lmk = rec

\* elevation tolerances: 0.0, 0.25, 0.5, 25000.0
ReflexiveTols == { Quarters(0), Quarters(1), Quarters(2), Quarters(100000) }

\* C28 as stated: for every record R without NaN in anchor_point,
\* map_r_world and ele, R == R and approx_equal(R, R, t) are true; with a
\* NaN in one of them R == R is false.
C28_Reflexive_AsStated ==
  ComparedWithItself =>
    cx.result = (IF ArraysNoNaN(rec) THEN "True" ELSE "False")

\* C28: for every record R without NaN in anchor_col, anchor_row,
\* resolution, anchor_point, map_r_world and ele, R == R and
\* approx_equal(R, R, t) for every t >= 0 are true; with a NaN in one of
\* these R == R and approx_equal(R, R, t) are false.
C28_Reflexive ==
  ComparedWithItself =>
    /\ cx.result = (IF NoNaN(rec) THEN "True" ELSE "False")
    /\ \A t \in ReflexiveTols :
         ApproxEqual(rec, rec, t) = (IF NoNaN(rec) THEN "True" ELSE "False")

\* a record whose only NaN is anchor_row was compared with itself, and the
\* result is False
C28_Witness ==
  /\ ComparedWithItself /\ cx.phase = "eq"
  /\ IsNaN(rec.anchor_row) /\ ArraysNoNaN(rec)
  /\ cx.result = "False"

\* the values an srm pixel takes
SrmValues == 0..255

\* the last call compared two records whose srm rasters have one shape and
\* values in 0..255
ComparedSrm ==
  /\ cx.phase \in {"eq", "approx", "assess"} /\ lmk.tag = "lmk"
  /\ rec.srm.shape = lmk.srm.shape
  /\ \A k \in 1..Len(rec.srm.data) : rec.srm.data[k] \in SrmValues /\ lmk.srm.data[k] \in SrmValues

\* C30: for srm values in 0..255 the test |x - y| <= 1e-8 + 1e-5 * |y|
\* holds exactly when x = y, so the comparisons find the srm rasters of two
\* records of equal shapes close exactly when the rasters are identical.
C30_SrmExact ==
  ComparedSrm =>
    /\ \A x \in SrmValues : \A y \in { 0, x - 1, x, x + 1, 255 } \cap SrmValues :
         IsCloseI(x, y, DefaultTol) <=> (x = y)
    /\ \A k \in 1..Len(rec.srm.data) : \A y \in SrmValues :
         /\ IsCloseI(rec.srm.data[k], y, DefaultTol) <=> (rec.srm.data[k] = y)
         /\ IsCloseI(y, rec.srm.data[k], DefaultTol) <=> (rec.srm.data[k] = y)
    /\ AllClose(rec.srm, lmk.srm, TRUE, DefaultTol) =
         (IF rec.srm = lmk.srm THEN "True" ELSE "False")
    /\ (cx.phase \in {"eq", "approx"} /\ cx.result = "True") => rec.srm = lmk.srm
    /\ (cx.phase = "assess" /\ err = "none" /\ cx.printed # << "Objects are equal" >>)
         => (("srm" \in Printed) <=> (rec.srm # lmk.srm))

\* two records that differ in one srm pixel only, by 1, compared unequal
C30_Witness ==
  /\ ComparedSrm /\ cx.phase = "eq" /\ cx.result = "False"
  /\ [rec EXCEPT !.srm = lmk.srm] = lmk
  /\ \E k \in 1..Len(rec.srm.data) : Abs(rec.srm.data[k] - lmk.srm.data[k]) = 1
  /\ Len(rec.srm.data) > 1

---------------------------------------------------------------------------
(* Claims about the effects of the operations, under FrameSpec.            *)

\* the operations that only read the records they are called on
ReadOnlyOps == {"save", "save_legacy", "eq", "approx_equal", "assess_equality"}

\* C23: save, save_legacy_little_endian, __eq__, approx_equal and
\* assess_equality leave every field of the record(s) they are called on
\* unchanged, whether they return or raise; only the loaders populate a
\* record, a fresh one, and they too leave the existing records alone.
C23_Frame ==
  [][ /\ op'.name \in ReadOnlyOps => (rec' = rec /\ lmk' = lmk)
      /\ op'.name \in {"save", "save_legacy"} => cx' = cx
      /\ op'.name \in {"eq", "approx_equal", "assess_equality"} => disk' = disk
      /\ op'.name \in {"load", "load_legacy"} =>
           /\ rec' = rec /\ lmk' = lmk /\ disk' = disk
           /\ err' = "none" => cx'.result.tag = "lmk" ]_vars

\* a save raised after assess_equality had raised or returned, and the
\* caller still holds both objects
C23_Witness ==
  /\ op.name = "save" /\ err # "none"
  /\ cx.phase = "assess"
  /\ rec # NoRecord /\ lmk # NoRecord

\* the buffer the save named by o builds for the record R, or its exception
Built(R, o) ==
  IF o.name = "save" THEN Save(R) ELSE SaveLegacy(R, Geo(o.body))

\* C27: save and save_legacy_little_endian write the destination only
\* after the whole buffer is built: when building raises, the file is
\* neither created nor modified; when it returns, the file holds the whole
\* buffer.
C27_NoPartialOutput ==
  [][ op'.name \in {"save", "save_legacy"} =>
        \A r \in { Built(rec, op') } :
           /\ err' = r.err
           /\ r.err # "none" => disk' = disk
           /\ r.err = "none" => (disk'.exists /\ disk'.data = r.buf) ]_vars

\* the legacy exporter raised on a resolution of 0.0 after save had
\* written the file, which is still the one save wrote
C27_Witness ==
  /\ op.name = "save_legacy" /\ err = "ZeroDivisionError"
  /\ disk.exists /\ disk.format = "v3" /\ disk.src = rec
  /\ disk.data = Save(rec).buf

---------------------------------------------------------------------------
(* Claims about the matrix codec, under CodecSpec.                         *)

\* a call of one of the three functions has returned or raised
Called == cx.phase \in {"unpacked", "unpacked_le", "packed"}

\* C7: unpack_matrix, unpack_little_endian_matrix and pack_matrix raise
\* ValueError for every element kind other than 'd', 'f' and 'B', before
\* any byte is read or written: nothing is returned and the buffer of
\* pack_matrix is unchanged.
C7_UnsupportedKind ==
  (Called /\ cx.type \notin {"d", "f", "B"})
    => (cx.err = "ValueError" /\ cx.buf = cx.buf0 /\ cx.out = Array1(<<>>))

\* pack_matrix was called with the kind 'i' on a matrix that has elements
C7_Witness ==
  /\ cx.phase = "packed" /\ cx.type = "i" /\ cx.err = "ValueError"
  /\ Len(cx.mat.data) > 0

\* C8: for every supported kind, shape [cols, rows] and buffer,
\* unpack_matrix returns a matrix whose element (i,j) is decoded from the
\* bytes at (i*cols + j)*width in the byte order the caller requested.
C8_UnpackByteOrder ==
  (cx.phase = "unpacked" /\ cx.type \in {"d", "f", "B"} /\ Len(cx.size) = 2)
    => /\ cx.err = "none"
       /\ LET cols == cx.size[1]
              rows == cx.size[2]
              w    == ByteSize(cx.type)
              b    == PyTail(cx.buf0, cx.offset)
          IN  \A i \in 0..(rows - 1) : \A j \in 0..(cols - 1) :
                At(cx.out, i, j) =
                  DecodeElem(cx.type, Bytes(b, (i * cols + j) * w, (i * cols + j + 1) * w),
                             cx.little)

\* C9: for every supported kind, byte order, offset and matrix M, 2-D or
\* 1-D, pack_matrix writes exactly width*size(M) bytes at the offset and
\* leaves every other byte unchanged, and unpack_matrix of the result with
\* the shape of M and the same byte order returns M.
C9_PackInverse ==
  /\ (cx.phase \in {"packed", "roundtrip"} /\ cx.type \in {"d", "f", "B"})
       => /\ Len(cx.buf) = Len(cx.buf0)
          /\ \A p \in 1..Len(cx.buf0) :
               (p <= cx.offset \/ p > cx.offset + ByteSize(cx.type) * Count(cx.size))
                 => cx.buf[p] = cx.buf0[p]
  /\ (cx.phase = "packed" /\ cx.type \in {"d", "f", "B"}) => cx.err = "none"
  /\ (cx.phase = "roundtrip" /\ Count(cx.size) > 0)
       => (cx.err = "none" /\ cx.out = cx.mat)

\* unpack_little_endian_matrix returned a matrix of a supported kind
UnpackedLegacy ==
  cx.phase = "unpacked_le" /\ cx.type \in {"d", "f", "B"} /\ Len(cx.size) = 2 /\ cx.err = "none"

\* element (i, j) of the result is decoded from its bytes in the given order
DecodedAs(little) ==
  LET cols == cx.size[1]
      rows == cx.size[2]
      w    == ByteSize(cx.type)
      b    == PyTail(cx.buf0, cx.offset)
  IN  \A i \in 0..(rows - 1) : \A j \in 0..(cols - 1) :
        At(cx.out, i, j) =
          DecodeElem(cx.type, Bytes(b, (i * cols + j) * w, (i * cols + j + 1) * w), little)

===========================================================================
